---- MODULE Spec2Model ----
(***************************************************************************)
(* Model of the tile download / cache / layer orchestration code of        *)
(* static_maps (tiles.py, maps.py).                                        *)
(*                                                                         *)
(* Python values are represented as follows:                               *)
(*   dict        a function whose DOMAIN is the set of keys                *)
(*   bytes       a sequence of byte values                                 *)
(*   Optional x  None is <<>>, a present value x is <<x>>                  *)
(*   str         a TLA+ string; Chars gives its characters where the code  *)
(*               looks inside the string                                   *)
(***************************************************************************)
EXTENDS Integers, Sequences, FiniteSets, TLC

VARIABLES
    dl,      \* the Downloader object: url, params, fields, headers, retries, backoff_time
    frame,   \* the running Downloader.download call
    eo,      \* the last direct Downloader._extra_override call
    storage, \* the TileStorage object and the cache directory behind it
    dol,     \* the running TileDownloader.download_or_local call
    ctor,    \* the last MapLayer(...) construction: its zoom list and what it raised
    layer,   \* the MapLayer object, None before a construction succeeds
    gt,      \* the running MapLayer.get_tiles call
    map,     \* the BaseMap object: layers and layers_meta
    call,    \* the last call of a BaseMap, TileID or geo operation: inputs and outcome
    layers,  \* the map layers of a program that builds several, by name
    heap     \* the objects those layers may share, by identity: downloaders and dicts

cacheVars == <<storage, dol>>
layerVars == <<ctor, layer, gt>>
geoVars == <<map, call>>
shareVars == <<layers, heap>>
vars == <<dl, frame, eo, storage, dol, ctor, layer, gt, map, call, layers, heap>>

----------------------------------------------------------------------------
(* Bounds of the exploration                                               *)

MaxRetries == 2
MaxBackoff == 2
\* longest zoom list tried on the MapLayer constructor
MaxZoomList == 3
\* most positional arguments passed to a bbox constructor
MaxArgs == 6
\* most add_layer calls made on one BaseMap
MaxLayers == 4
\* deepest zoom level of the tile ids whose relations are explored
MaxTileZoom == 2
\* most get_tiles calls made on one layer of the program that builds two
MaxRuns == 1

----------------------------------------------------------------------------
(* Python helpers                                                          *)

None == <<>>
Some(x) == <<x>>
IsNone(o) == o = <<>>
Val(o) == o[1]

EmptyDict == [k \in {} |-> ""]

\* bool(d) of a dict
Truthy(d) == DOMAIN d # {}

\* dict.update: the keys of b are added to a, or replace a's value
DictUpdate(a, b) ==
    [k \in (DOMAIN a) \cup (DOMAIN b) |-> IF k \in DOMAIN b THEN b[k] ELSE a[k]]

\* dict.get(k, default)
DictGet(d, k, default) == IF k \in DOMAIN d THEN d[k] ELSE default

\* all dicts with keys among K and values among V
Dicts(K, V) == UNION {[D -> V] : D \in SUBSET K}

\* the characters of the strings whose content the code inspects
Chars(s) ==
    CASE s = "" -> <<>>
      [] s = "png" -> <<"p", "n", "g">>
      [] s = "jpeg" -> <<"j", "p", "e", "g">>
      [] s = "jpg" -> <<"j", "p", "g">>
      [] s = "xml" -> <<"x", "m", "l">>
      [] s = "image/png" -> <<"i", "m", "a", "g", "e", "/", "p", "n", "g">>
      [] s = "Image/JPEG" -> <<"I", "m", "a", "g", "e", "/", "J", "P", "E", "G">>
      [] s = "text/html" -> <<"t", "e", "x", "t", "/", "h", "t", "m", "l">>
      [] s = "3857" -> <<"3", "8", "5", "7">>
      [] s = "4326" -> <<"4", "3", "2", "6">>
      [] s = "EPSG:3857" -> <<"E", "P", "S", "G", ":", "3", "8", "5", "7">>
      [] s = "EPSG:4326" -> <<"E", "P", "S", "G", ":", "4", "3", "2", "6">>
      [] s = "epsg:3857" -> <<"e", "p", "s", "g", ":", "3", "8", "5", "7">>
      [] s = "EPSG:900913" -> <<"E", "P", "S", "G", ":", "9", "0", "0", "9", "1", "3">>
      [] s = "4326,3857" -> <<"4", "3", "2", "6", ",", "3", "8", "5", "7">>

\* str.lower, character by character
LowerChar(c) ==
    CASE c = "I" -> "i"
      [] c = "J" -> "j"
      [] c = "P" -> "p"
      [] c = "E" -> "e"
      [] c = "G" -> "g"
      [] c = "S" -> "s"
      [] OTHER -> c

Lower(cs) == [i \in 1..Len(cs) |-> LowerChar(cs[i])]

\* a in b, for strings given by their characters
IsSubstr(a, b) ==
    \E i \in 0..(Len(b) - Len(a)) : SubSeq(b, i + 1, i + Len(a)) = a

----------------------------------------------------------------------------
(* tiles.py: image_types                                                   *)

image_types == {"png", "jpg", "jpeg", "bmp", "webp", "tiff", "gif"}

----------------------------------------------------------------------------
(* The tile server, as seen through requests.get                           *)

Statuses == {200, 404, 500}
ContentTypes == {"image/png", "Image/JPEG", "text/html"}
EmptyBytes == <<>>
ImageBytes == <<137, 80>>

\* resp.content: bytes, or whatever else the transport hands back (None)
Contents == {None, Some(EmptyBytes), Some(ImageBytes)}

ConnectionError == [kind |-> "conn"]

\* a response: the Content-Type header may be missing
Response(st, ct, content) ==
    [kind |-> "resp", status |-> st, ctype |-> ct, content |-> content]

Responses(contents) ==
    {Response(st, ct, b) : st \in Statuses, ct \in {None} \cup {Some(c) : c \in ContentTypes},
                           b \in contents}

NoResponse == [kind |-> "none"]

----------------------------------------------------------------------------
(* Downloader._extra_override                                              *)

\* the instance's dict after the call: self_v.update(extra) if extra
extra_override_self(self_v, override, extra) ==
    IF Truthy(extra) THEN DictUpdate(self_v, extra) ELSE self_v

\* variant: a non-empty extra wins over the override
extra_override_ExtraWins(self_v, override, extra) ==
    IF Truthy(extra) THEN DictUpdate(self_v, extra)
    ELSE IF Truthy(override) THEN override ELSE self_v

\* the returned dict: override if override else self_v
extra_override(self_v, override, extra) ==
    IF Truthy(override) THEN override ELSE extra_override_self(self_v, override, extra)

----------------------------------------------------------------------------
(* Downloader.download                                                     *)

\* url.format(**fields) raises KeyError when a placeholder has no field
FormatFails(url, fields) == ~(url.placeholders \subseteq DOMAIN fields)

\* variant: one iteration too many
BudgetLeft_OffByOne(tries, retries) == tries <= retries

\* for tries in range(self.retries): is there another iteration
BudgetLeft(tries, retries) == tries < retries

\* pf = params.get("format", fields.get("fmt", ""))
RequestedFormat(params, fields) == DictGet(params, "format", DictGet(fields, "fmt", ""))

\* if pf not in rh_ct and pf not in self.image_types
FormatMismatch(pf, ctype) ==
    /\ ~IsSubstr(Chars(pf), Lower(Chars(ctype)))
    /\ pf \notin image_types

\* variant: an unacceptable status is retried like a connection failure
AttemptOutcome_RetryStatus(resp, pf, acceptable) ==
    IF resp.kind = "conn" THEN "retry"
    ELSE IF IsNone(resp.ctype) THEN "KeyError"
    ELSE IF FormatMismatch(pf, Val(resp.ctype)) THEN "DownloadError"
    ELSE IF resp.status = 200 THEN "return"
    ELSE IF resp.status \in acceptable THEN "return"
    ELSE "retry"

\* what one iteration of the retry loop does with the answer of requests.get
AttemptOutcome(resp, pf, acceptable) ==
    IF resp.kind = "conn" THEN "retry"
    ELSE IF IsNone(resp.ctype) THEN "KeyError"
    ELSE IF FormatMismatch(pf, Val(resp.ctype)) THEN "DownloadError"
    ELSE IF resp.status = 200 THEN "return"
    ELSE IF resp.status \in acceptable THEN "return"
    ELSE "DownloadError"

IdleFrame ==
    [pc |-> "idle", acceptable |-> {}, params |-> EmptyDict, fields |-> EmptyDict,
     headers |-> EmptyDict, pf |-> "", retries |-> 0, tries |-> 0, backoff_time |-> 0,
     sleeps |-> <<>>, reqs |-> 0, last |-> NoResponse, exc |-> "", content |-> None]

\* download(...) up to the start of the retry loop
DownloadEnter(acceptable, po, fo, ho, pe, fe, he) ==
    LET params == extra_override(dl.params, po, pe)
        fields == extra_override(dl.fields, fo, fe)
        headers == extra_override(dl.headers, ho, he)
        fails == FormatFails(dl.url, fields)
    IN  /\ dl' = [dl EXCEPT !.params = extra_override_self(dl.params, po, pe),
                            !.fields = extra_override_self(dl.fields, fo, fe),
                            !.headers = extra_override_self(dl.headers, ho, he)]
        /\ frame' = [IdleFrame EXCEPT
                        !.pc = IF fails THEN "raised" ELSE "loop",
                        !.exc = IF fails THEN "KeyError" ELSE "",
                        !.acceptable = acceptable,
                        !.params = params, !.fields = fields, !.headers = headers,
                        !.pf = RequestedFormat(params, fields),
                        !.retries = dl.retries,
                        !.backoff_time = dl.backoff_time]

\* one iteration of the retry loop: requests.get and what follows it
DownloadAttempt(responses) ==
    /\ frame.pc = "loop"
    /\ BudgetLeft(frame.tries, frame.retries)
    /\ \E resp \in {ConnectionError} \cup responses :
         LET o == AttemptOutcome(resp, frame.pf, frame.acceptable)
             f == [frame EXCEPT !.reqs = @ + 1, !.last = resp]
         IN  frame' =
               CASE o = "retry" ->
                      \* time.sleep(backoff_time); backoff_time = backoff_time**2
                      [f EXCEPT !.sleeps = Append(@, frame.backoff_time),
                                !.backoff_time = frame.backoff_time * frame.backoff_time,
                                !.tries = @ + 1]
                 [] o = "return" ->
                      [f EXCEPT !.pc = "returned", !.content = resp.content]
                 [] OTHER ->
                      [f EXCEPT !.pc = "raised", !.exc = o]
    /\ UNCHANGED dl

\* the loop ran out: raise self.DownloadError("Failed downloading ...")
DownloadExhausted ==
    /\ frame.pc = "loop"
    /\ ~BudgetLeft(frame.tries, frame.retries)
    /\ frame' = [frame EXCEPT !.pc = "raised", !.exc = "DownloadError"]
    /\ UNCHANGED dl

DownloadOver == frame.pc \in {"returned", "raised"}

----------------------------------------------------------------------------
(* url templates: the placeholders, and whether "png" occurs in the text   *)

PlainUrl == [placeholders |-> {}, has_png |-> FALSE]
FmtUrl == [placeholders |-> {"fmt"}, has_png |-> FALSE]
SlippyUrl == [placeholders |-> {"z", "x", "y"}, has_png |-> TRUE]
SlippyFmtUrl == [placeholders |-> {"z", "x", "y", "fmt"}, has_png |-> FALSE]

----------------------------------------------------------------------------
(* TileID, Tile                                                            *)

TileID(z, x, y) == [z |-> z, x |-> x, y |-> y, scheme |-> "xyz"]

\* Tile(tid, img_data, fmt=...); fmt defaults to "jpeg"
Tile(tid, img_data, fmt) == [tid |-> tid, img_data |-> img_data, fmt |-> fmt]

\* Tile.__len__, which is what bool(tile) uses
TileLen(tile) == Len(tile.img_data)

\* TileID.get_urlform(order="zxy"): str(z)/str(x)/str(y), one string per (z, x, y)
get_urlform(tid) == <<tid.z, tid.x, tid.y>>

----------------------------------------------------------------------------
(* TileStorage                                                             *)

\* memory-backed: a dict from url form to Tile; disk-backed: the files
\* <full_path>/z/x/y.<ext>, here a dict from <<z, x, y, ext>> to the file's bytes
NewStorage(mode) == [mode |-> mode, mem |-> EmptyDict, files |-> EmptyDict]

\* the files glob.glob(f"{file_path}.*") finds for a tile id
GlobFiles(S, tile_id) ==
    {f \in DOMAIN S.files : <<f[1], f[2], f[3]>> = get_urlform(tile_id)}

\* TileStorage.get_tile: the tiles it may return (glob's order is not specified)
get_tile(S, tile_id) ==
    IF S.mode = "memory"
    THEN {IF get_urlform(tile_id) \in DOMAIN S.mem
          THEN Some(S.mem[get_urlform(tile_id)]) ELSE None}
    ELSE IF GlobFiles(S, tile_id) # {}
         THEN {Some(Tile(tile_id, S.files[f], "jpeg")) : f \in GlobFiles(S, tile_id)}
         ELSE {None}

\* TileStorage._add_storage
add_storage(S, tile) ==
    [S EXCEPT !.mem = DictUpdate(@, [k \in {get_urlform(tile.tid)} |-> tile])]

\* TileStorage.add_tile: the outcomes; writing to disk may fail with StorageError,
\* before the file is opened or after open() has truncated it
add_tile(S, tile) ==
    IF S.mode = "memory"
    THEN {[exc |-> "", S |-> add_storage(S, tile)]}
    ELSE LET f == <<tile.tid.z, tile.tid.x, tile.tid.y, tile.fmt>>
             write(data) == [S EXCEPT !.files = DictUpdate(@, [k \in {f} |-> data])]
         IN  {[exc |-> "", S |-> write(tile.img_data)],
              [exc |-> "StorageError", S |-> S],
              [exc |-> "StorageError", S |-> write(EmptyBytes)]}

\* the storage holds a tile for the tile id
Holds(S, tile_id) == get_tile(S, tile_id) # {None}

----------------------------------------------------------------------------
(* SlippyTileDownloader.download_tile, TileDownloader.download_or_local    *)

\* `if res:` on the Optional[Tile] that get_tile returned
TileFound(res) == ~IsNone(res) /\ TileLen(Val(res)) > 0

\* f = self.fields.get("fmt", image_fmt_guess[0]): the fmt field, else the bool
\* `"png" in self.url`
TileFormat(d) ==
    DictGet(d.fields, "fmt", IF d.url.has_png THEN "True" ELSE "False")

\* fe = {"z": z, "x": x, "y": y}
TileFields(tid) ==
    [k \in {"z", "x", "y"} |-> CASE k = "z" -> tid.z [] k = "x" -> tid.x [] OTHER -> tid.y]

IdleDol ==
    [pc |-> "idle", tid |-> TileID(0, 0, 0), held |-> FALSE, fetched |-> FALSE,
     before |-> NewStorage("memory"), res |-> None, exc |-> ""]

\* download_or_local(tid, folder) up to the return of a stored tile or the call
\* of download_tile; without a folder the function reaches `return res` with res unbound
download_or_local_enter(tid, folder) ==
    LET d == [IdleDol EXCEPT !.tid = tid, !.before = storage,
                             !.held = folder /\ Holds(storage, tid)]
    IN  IF ~folder
        THEN /\ dol' = [d EXCEPT !.pc = "raised", !.exc = "UnboundLocalError"]
             /\ frame' = IdleFrame
             /\ UNCHANGED dl
        ELSE \E res \in get_tile(storage, tid) :
               IF TileFound(res)
               THEN /\ dol' = [d EXCEPT !.pc = "returned", !.res = res]
                    /\ frame' = IdleFrame
                    /\ UNCHANGED dl
               ELSE /\ dol' = [d EXCEPT !.pc = "fetching", !.fetched = TRUE]
                    /\ DownloadEnter({}, EmptyDict, EmptyDict, EmptyDict,
                                     EmptyDict, TileFields(tid), EmptyDict)

\* variant: a fetch that yields nothing leaves an empty tile in the storage
StoreFetched_CacheNothing(S, tid, content, fmt) ==
    IF IsNone(content)
    THEN add_tile(S, Tile(tid, EmptyBytes, fmt))
    ELSE add_tile(S, Tile(tid, Val(content), fmt))

\* download_tile's `if resp is None: return None`, download_or_local's
\* `if res is None: return None`, then folder.add_tile(res): the outcomes
StoreFetched(S, tid, content, fmt) ==
    IF IsNone(content)
    THEN {[exc |-> "", S |-> S]}
    ELSE add_tile(S, Tile(tid, Val(content), fmt))

\* the rest of download_or_local, once self.download has returned or raised
download_or_local_finish ==
    /\ dol.pc = "fetching"
    /\ DownloadOver
    /\ IF frame.pc = "raised"
       THEN /\ dol' = [dol EXCEPT !.pc = "raised", !.exc = frame.exc]
            /\ UNCHANGED storage
       ELSE \E o \in StoreFetched(storage, dol.tid, frame.content, TileFormat(dl)) :
              /\ storage' = o.S
              /\ dol' = IF o.exc # ""
                        THEN [dol EXCEPT !.pc = "raised", !.exc = o.exc]
                        ELSE [dol EXCEPT !.pc = "returned",
                                !.res = IF IsNone(frame.content) THEN None
                                        ELSE Some(Tile(dol.tid, Val(frame.content),
                                                       TileFormat(dl)))]
    /\ UNCHANGED <<dl, frame>>

DolOver == dol.pc \in {"returned", "raised"}

----------------------------------------------------------------------------
(* tile enumeration and tile paths                                         *)

RECURSIVE Pow(_, _)
Pow(b, e) == IF e = 0 THEN 1 ELSE b * Pow(b, e - 1)

\* mercantile.tiles(-180, -85, 180, 85, z): every tile of the zoom level, column by
\* column, each column from row 0 downwards
WorldTiles(z) ==
    [i \in 1..Pow(4, z) |-> TileID(z, (i - 1) \div Pow(2, z), (i - 1) % Pow(2, z))]

\* get_tile_ids(bbox, zooms) for the world bbox, in the order in which get_tiles
\* walks the dict: zoom levels as given, the tiles of a level in mercantile's order
RECURSIVE get_tile_ids(_)
get_tile_ids(zooms) ==
    IF zooms = <<>> THEN <<>>
    ELSE WorldTiles(Head(zooms)) \o get_tile_ids(Tail(zooms))

\* variant: the file name is left out of the path
tile_path_NoFileName(tile) ==
    <<tile.tid.z, tile.tid.x, 0, IF tile.fmt = "jpeg" THEN "jpg" ELSE tile.fmt>>

\* tile_path(tile, base_path=storage.full_path): <base>/z/x/y.<ext>
tile_path(tile) ==
    <<tile.tid.z, tile.tid.x, tile.tid.y, IF tile.fmt = "jpeg" THEN "jpg" ELSE tile.fmt>>

----------------------------------------------------------------------------
(* MapLayer                                                                *)

DefaultMaxZoom == 22

SeqElems(sq) == {sq[i] : i \in 1..Len(sq)}
SeqMax(sq) == CHOOSE m \in SeqElems(sq) : \A e \in SeqElems(sq) : e <= m
SeqMin(sq) == CHOOSE m \in SeqElems(sq) : \A e \in SeqElems(sq) : m <= e
Count(sq, x) == Cardinality({i \in 1..Len(sq) : sq[i] = x})

\* variant: the largest zoom level itself is refused
zoom_bounds_Exclusive(zoom_levels, max_zoom) ==
    IF Len(zoom_levels) = 0 THEN "ValueError"
    ELSE IF SeqMax(zoom_levels) >= max_zoom \/ SeqMin(zoom_levels) < 0 THEN "ValueError"
    ELSE IF {x \in SeqElems(zoom_levels) : Count(zoom_levels, x) > 1} # {} THEN "ValueError"
    ELSE ""

\* MapLayer.zoom_bounds: the exception the validator raises, "" when it passes
zoom_bounds(zoom_levels, max_zoom) ==
    IF Len(zoom_levels) = 0 THEN "ValueError"
    ELSE IF SeqMax(zoom_levels) > max_zoom \/ SeqMin(zoom_levels) < 0 THEN "ValueError"
    ELSE IF {x \in SeqElems(zoom_levels) : Count(zoom_levels, x) > 1} # {} THEN "ValueError"
    ELSE ""

NoCtor == [called |-> FALSE, zoom_levels |-> <<>>, exc |-> ""]

IdleGt ==
    [pc |-> "idle", exc |-> "", queue |-> <<>>, idx |-> 0, calls |-> <<>>,
     fetches |-> <<>>, skipped |-> 0]

\* MapLayer(bbox, zoom_levels, base_url, temp_path=..., cache_path=..., fmt=...):
\* the attrs __init__ sets the fields and then runs the validators
MapLayerInit(zoom_levels, temp_path, cache_path, fmt) ==
    LET exc == zoom_bounds(zoom_levels, DefaultMaxZoom)
    IN  /\ ctor' = [called |-> TRUE, zoom_levels |-> zoom_levels, exc |-> exc]
        /\ layer' = IF exc # "" THEN None
                    ELSE Some([zoom_levels |-> zoom_levels, temp_path |-> temp_path,
                               cache_path |-> cache_path, fmt |-> fmt,
                               tiles |-> EmptyDict])

\* MapLayer.setup_storage: the exception it raises ("" for none) and the storage;
\* dir is what the directory under temp_path or cache_path holds already
setup_storage(l, dir) ==
    IF l.temp_path /\ l.cache_path
    THEN [exc |-> "AssertionError", S |-> NewStorage("memory")]
    ELSE IF l.temp_path \/ l.cache_path
    THEN [exc |-> "", S |-> [NewStorage("disk") EXCEPT !.files = dir]]
    ELSE [exc |-> "", S |-> NewStorage("memory")]

\* get_tiles(headers={}, fields={}) up to the first iteration of its loop
get_tiles_enter ==
    LET l == Val(layer)
        st == setup_storage(l, storage.files)
    IN  /\ gt.pc = "idle"
        /\ storage' = IF st.exc # "" THEN storage ELSE st.S
        /\ gt' = IF st.exc # ""
                 THEN [IdleGt EXCEPT !.pc = "raised", !.exc = st.exc,
                                     !.queue = get_tile_ids(l.zoom_levels)]
                 ELSE [IdleGt EXCEPT !.pc = "loop", !.queue = get_tile_ids(l.zoom_levels)]
        \* the downloader's url, fields, headers and params are overwritten
        /\ dl' = IF st.exc # "" THEN dl
                 ELSE [dl EXCEPT !.url = SlippyUrl,
                                 !.fields = [k \in {"fmt"} |-> l.fmt],
                                 !.headers = EmptyDict,
                                 !.params = EmptyDict]
        /\ UNCHANGED <<frame, dol, layer, ctor>>

\* the next iteration: t = self.tile_downloader.download_or_local(tile, self._storage)
get_tiles_next ==
    /\ gt.pc = "loop"
    /\ dol.pc = "idle"
    /\ gt.idx < Len(gt.queue)
    /\ download_or_local_enter(gt.queue[gt.idx + 1], TRUE)
    /\ gt' = [gt EXCEPT !.idx = @ + 1,
                        !.calls = Append(@, gt.queue[gt.idx + 1]),
                        !.fetches = IF dol'.fetched
                                    THEN Append(@, gt.queue[gt.idx + 1]) ELSE @]
    /\ UNCHANGED <<storage, layer, ctor>>

\* the tiles for which the server may answer 200 with an empty body or no content
OddTiles == {TileID(0, 0, 0), TileID(1, 1, 0), TileID(2, 3, 3)}

\* the answers of the tile server in this run: the tile image (for an odd tile also
\* an empty body or no content), not found, a server error, and a response without
\* a Content-Type header
RunResponses ==
    {Response(200, Some("image/png"), c) :
        c \in IF dol.tid \in OddTiles THEN Contents ELSE {Some(ImageBytes)}}
    \cup {Response(404, Some("text/html"), Some(EmptyBytes)),
          Response(500, Some("text/html"), Some(EmptyBytes)),
          Response(200, None, Some(ImageBytes))}

\* download_or_local is over: an exception ends get_tiles, None skips the tile,
\* a tile is entered under its path
get_tiles_resume ==
    /\ gt.pc = "loop"
    /\ DolOver
    /\ IF dol.pc = "raised"
       THEN /\ gt' = [gt EXCEPT !.pc = "raised", !.exc = dol.exc]
            /\ UNCHANGED layer
       ELSE IF IsNone(dol.res)
       THEN /\ gt' = [gt EXCEPT !.skipped = @ + 1]
            /\ UNCHANGED layer
       ELSE /\ UNCHANGED gt
            /\ layer' = Some([Val(layer) EXCEPT !.tiles =
                                 DictUpdate(@, [k \in {tile_path(Val(dol.res))}
                                                  |-> Val(dol.res)])])
    /\ dol' = IdleDol
    /\ UNCHANGED <<dl, frame, storage, ctor>>

\* the loop is over: return self._tiles, output_meta
get_tiles_return ==
    /\ gt.pc = "loop"
    /\ dol.pc = "idle"
    /\ gt.idx = Len(gt.queue)
    /\ gt' = [gt EXCEPT !.pc = "returned"]
    /\ UNCHANGED <<dl, frame, storage, dol, layer, ctor>>

----------------------------------------------------------------------------
(* TileID relations and scheme flip (tiles.py)                             *)

\* the outcome of a call: the exception raised ("" for none) and the value returned
Returned(v) == [exc |-> "", ret |-> Some(v)]
Raised(e) == [exc |-> e, ret |-> None]

\* TileID._swap_scheme
swap_scheme_NoOffset(tid) ==
    [z |-> tid.z, x |-> tid.x, y |-> Pow(2, tid.z) - tid.y,
     scheme |-> IF tid.scheme = "xyz" THEN "tms" ELSE "xyz"]
swap_scheme(tid) ==
    [z |-> tid.z, x |-> tid.x, y |-> Pow(2, tid.z) - tid.y - 1,
     scheme |-> IF tid.scheme = "xyz" THEN "tms" ELSE "xyz"]

\* Tile.flip_scheme: the tile after the call, which replaces its tid
flip_scheme(tile) == [tile EXCEPT !.tid = swap_scheme(tile.tid)]

\* the attributes, properties and methods that a TileID object has
TileIDAttributes ==
    {"z", "x", "y", "scheme", "zoom", "s", "__iter__", "__len__", "as_mercantile",
     "get_urlform", "get_pathform", "parent", "children", "siblings",
     "_swap_scheme", "get_tms_tid", "get_xyz_tid"}

\* mercantile.parent and mercantile.children on (x, y, z) tiles
mercantile_parent(mt) == [x |-> mt.x \div 2, y |-> mt.y \div 2, z |-> mt.z - 1]
mercantile_children(mt) ==
    <<[x |-> 2 * mt.x, y |-> 2 * mt.y, z |-> mt.z + 1],
      [x |-> 2 * mt.x + 1, y |-> 2 * mt.y, z |-> mt.z + 1],
      [x |-> 2 * mt.x + 1, y |-> 2 * mt.y + 1, z |-> mt.z + 1],
      [x |-> 2 * mt.x, y |-> 2 * mt.y + 1, z |-> mt.z + 1]>>

\* TileID(mt): a mercantile tile as the only argument leaves x and y missing
TileIDFromMercantile(mt) == Raised("TypeError")

\* TileID.parent, TileID.children, TileID.siblings: each reads self.asmrcantile
\* first, and a TileID has no attribute of that name
parent(tid) ==
    IF "asmrcantile" \notin TileIDAttributes THEN Raised("AttributeError")
    ELSE TileIDFromMercantile(mercantile_parent([x |-> tid.x, y |-> tid.y, z |-> tid.z]))

children(tid) ==
    IF "asmrcantile" \notin TileIDAttributes THEN Raised("AttributeError")
    ELSE TileIDFromMercantile(mercantile_children([x |-> tid.x, y |-> tid.y, z |-> tid.z])[1])

siblings(tid) ==
    IF "asmrcantile" \notin TileIDAttributes THEN Raised("AttributeError")
    ELSE TileIDFromMercantile(
            mercantile_children(
                mercantile_parent([x |-> tid.x, y |-> tid.y, z |-> tid.z]))[1])

----------------------------------------------------------------------------
(* Numbers and points (geo.py)                                             *)

(* A Python number is [t |-> "num", i, f]: the decimal value i + f / 10^9 with  *)
(* 0 <= f < 10^9, one decimal more than the 8 the code rounds to.  A Python str *)
(* is [t |-> "str", s].                                                        *)
Frac == 10 ^ 9
Num(i, f) == [t |-> "num", i |-> i, f |-> f]
Str(s) == [t |-> "str", s |-> s]
IsNum(v) == v.t = "num"
Zero == Num(0, 0)

Less(a, b) == a.i < b.i \/ (a.i = b.i /\ a.f < b.f)
Leq(a, b) == a = b \/ Less(a, b)
Neg(a) == IF a.f = 0 THEN Num(-a.i, 0) ELSE Num(-a.i - 1, Frac - a.f)
Abs(a) == IF Less(a, Zero) THEN Neg(a) ELSE a
PyMax(a, b) == IF Less(a, b) THEN b ELSE a
PyMin(a, b) == IF Less(b, a) THEN b ELSE a

\* round(a, rv): to the nearest multiple of 10^-rv.  A value half-way between two
\* multiples is not a binary float; the float that stands for it lies on one side,
\* which tie_up tells
round(a, rv, tie_up) ==
    LET step == 10 ^ (9 - rv)
        q == a.f \div step
        r == a.f % step
        up == 2 * r > step \/ (2 * r = step /\ tie_up)
        f2 == step * (q + (IF up THEN 1 ELSE 0))
    IN  IF f2 = Frac THEN Num(a.i + 1, 0) ELSE Num(a.i, f2)

\* LatLonExtents = (85.051129, 180, 8), xyExtents = (20037508.342789244, same, 8)
LatLonExtents == [lat |-> Num(85, 51129000), lon |-> Num(180, 0), rv |-> 8]
xyExtents == [x |-> Num(20037508, 342789244), y |-> Num(20037508, 342789244), rv |-> 8]

\* clamp(a, v): a clamped to [-v, +v]
clamp_NoLowerBound(a, v) == PyMin(a, v)
clamp(a, v) == PyMin(PyMax(a, Neg(v)), v)

\* clamp_float_round(v, ex, rv): any exception of the clamping or rounding (a str
\* does not compare with a float, the extent is negative) hands v back unchanged
clamp_float_round(v, ex, rv, tie_up) ==
    IF ~IsNum(v) \/ Less(ex, Zero) THEN v
    ELSE round(clamp(v, ex), rv, tie_up)

lat_converter(lat, tie_up) == clamp_float_round(lat, LatLonExtents.lat, LatLonExtents.rv, tie_up)
lon_converter(lon, tie_up) == clamp_float_round(lon, LatLonExtents.lon, LatLonExtents.rv, tie_up)
x_xy_converter(x, tie_up) == clamp_float_round(x, xyExtents.x, xyExtents.rv, tie_up)
y_xy_converter(y, tie_up) == clamp_float_round(y, xyExtents.y, xyExtents.rv, tie_up)

\* LatLon(lat, lon): the converters, then the instance_of(float) validators
LatLon(lat, lon, tie_up) ==
    LET a == lat_converter(lat, tie_up)
        b == lon_converter(lon, tie_up)
    IN  IF ~IsNum(a) \/ ~IsNum(b) THEN Raised("TypeError")
        ELSE Returned([cls |-> "LatLon", lat |-> a, lon |-> b, crs |-> "EPSG:4326"])

\* xyPoint(x, y)
xyPoint(x, y, tie_up) ==
    LET a == x_xy_converter(x, tie_up)
        b == y_xy_converter(y, tie_up)
    IN  IF ~IsNum(a) \/ ~IsNum(b) THEN Raised("TypeError")
        ELSE Returned([cls |-> "xyPoint", x |-> a, y |-> b, crs |-> "EPSG:3857"])

\* float(v) of the strings that are passed: "12.0" parses, "x" does not
float(v) ==
    IF IsNum(v) THEN Returned(v)
    ELSE IF v.s = "12.0" THEN Returned(Num(12, 0))
    ELSE Raised("ValueError")

\* Point(x, y): converter float, validator instance_of((float, int))
Point(x, y) ==
    IF float(x).exc # "" THEN Raised(float(x).exc)
    ELSE IF float(y).exc # "" THEN Raised(float(y).exc)
    ELSE Returned([cls |-> "Point", x |-> Val(float(x).ret), y |-> Val(float(y).ret)])

\* BasePoint.__iter__: the data slots of the point, without crs
PointIter(pnt) ==
    IF pnt.cls = "LatLon" THEN <<pnt.lat, pnt.lon>> ELSE <<pnt.x, pnt.y>>

----------------------------------------------------------------------------
(* Bounding boxes (geo.py)                                                 *)

\* the point class that a bbox class names as its point_type
point_type(cls) ==
    CASE cls = "LatLonBBox" -> "LatLon"
      [] cls = "xyBBox" -> "xyPoint"
      [] OTHER -> "Point"

\* BBoxBase(left, top, right, bottom, crs=""): converter float on the four edges,
\* validator instance_of(str) on crs
BBoxBase(left, top, right, bottom, crs) ==
    LET bad == {v \in {left, top, right, bottom} : float(v).exc # ""}
    IN  IF bad # {} THEN Raised("ValueError")
        ELSE IF crs.t # "str" THEN Raised("TypeError")
        ELSE Returned([cls |-> "BBoxBase",
                       left |-> Val(float(left).ret), top |-> Val(float(top).ret),
                       right |-> Val(float(right).ret), bottom |-> Val(float(bottom).ret),
                       crs |-> crs.s])

\* BBoxBase.__iter__, and its override in LatLonBBox
BBoxIter_Generic(bbox) == <<bbox.left, bbox.top, bbox.right, bbox.bottom>>
BBoxIter(bbox) ==
    IF bbox.cls = "LatLonBBox"
    THEN <<bbox.top, bbox.left, bbox.bottom, bbox.right>>
    ELSE <<bbox.left, bbox.top, bbox.right, bbox.bottom>>

\* BBoxBase.__contains__
contains_Inclusive(bbox, pnt) ==
    IF pnt.cls # point_type(bbox.cls) THEN FALSE
    ELSE LET pa == PointIter(pnt)[1]
             pb == PointIter(pnt)[2]
             l == BBoxIter(bbox)[1]
             t == BBoxIter(bbox)[2]
             r == BBoxIter(bbox)[3]
             b == BBoxIter(bbox)[4]
         IN  Leq(l, pa) /\ Leq(pa, r) /\ Leq(b, pb) /\ Leq(pb, t)
contains(bbox, pnt) ==
    IF pnt.cls # point_type(bbox.cls) THEN FALSE
    ELSE LET pa == PointIter(pnt)[1]
             pb == PointIter(pnt)[2]
             l == BBoxIter(bbox)[1]
             t == BBoxIter(bbox)[2]
             r == BBoxIter(bbox)[3]
             b == BBoxIter(bbox)[4]
         IN  Less(l, pa) /\ Less(pa, r) /\ Less(b, pb) /\ Less(pb, t)

\* BBox.__init__: bbox_aliases, alias -> attribute
bbox_aliases ==
    [k \in {"_lln", "maxy", "ymax", "north", "n", "t", "up", "u"} |-> "top"]
    @@ [k \in {"_lls", "miny", "ymin", "south", "s", "b", "down", "d"} |-> "bottom"]
    @@ [k \in {"_llw", "minx", "xmin", "west", "w", "l"} |-> "left"]
    @@ [k \in {"_lle", "maxx", "xmax", "east", "e", "r"} |-> "right"]
    @@ [k \in {"_llc", "srs"} |-> "crs"]

\* BBox.lookup(k): the attribute that k is an alias or the name of, or TypeError
lookup(k) ==
    IF k \in DOMAIN bbox_aliases THEN Returned(bbox_aliases[k])
    ELSE IF k \in {"top", "bottom", "left", "right", "crs"} THEN Returned(k)
    ELSE Raised("TypeError")

\* str.lower of the keywords that are passed
StrLower(k) ==
    CASE k = "W" -> "w"
      [] k = "N" -> "n"
      [] k = "mInx" -> "minx"
      [] k = "MAXy" -> "maxy"
      [] k = "Bottom" -> "bottom"
      [] OTHER -> k

\* a dict comprehension {f(k): v for k, v in kw}: kw is a sequence of <<key, value>>
\* in insertion order; a later pair replaces an earlier one with the same new key
RECURSIVE DictOfPairs(_)
DictOfPairs(kw) ==
    IF kw = <<>> THEN EmptyDict
    ELSE DictUpdate(DictOfPairs(SubSeq(kw, 1, Len(kw) - 1)),
                    [k \in {kw[Len(kw)][1]} |-> kw[Len(kw)][2]])

\* the attrs-generated BBox.__attrs_init__(**a): left, top, right and bottom are
\* required, crs is optional
attrs_init(cls, a) ==
    IF {"left", "top", "right", "bottom"} \ (DOMAIN a) # {} THEN Raised("TypeError")
    ELSE LET r == BBoxBase(a["left"], a["top"], a["right"], a["bottom"],
                           DictGet(a, "crs", Str("")))
         IN  IF r.exc # "" THEN r ELSE Returned([Val(r.ret) EXCEPT !.cls = cls])

\* BBox.__init__ up to the call of __attrs_init__: the keywords it passes on
BBoxPositional == <<"left", "top", "right", "bottom", "crs">>
BBoxResolve(args, kwargs) ==
    LET lowered == [i \in 1..Len(kwargs) |-> <<StrLower(kwargs[i][1]), kwargs[i][2]>>]
        kw == DictOfPairs(lowered)
        unknown == {k \in DOMAIN kw : lookup(k).exc # ""}
        a == DictOfPairs([i \in 1..Len(lowered) |->
                            <<Val(lookup(lowered[i][1]).ret), lowered[i][2]>>])
        \* zip stops at the shorter of the five names and args
        n == IF Len(args) < 5 THEN Len(args) ELSE 5
        b == [k \in {BBoxPositional[i] : i \in 1..n} |->
                args[CHOOSE i \in 1..n : BBoxPositional[i] = k]]
    IN  IF unknown # {} THEN Raised("TypeError")
        ELSE Returned(DictUpdate(a, b))

\* BBox(*args, **kwargs)
BBoxInit(cls, args, kwargs) ==
    LET a == BBoxResolve(args, kwargs)
    IN  IF a.exc # "" THEN a ELSE attrs_init(cls, Val(a.ret))

\* the attrs-generated LatLonBBox.__attrs_init__(**a): crs is not an argument
\* (init=False); top and bottom go through lat_converter, left and right through
\* lon_converter, then the instance_of(float) validators run
ll_attrs_init(a, tie_up) ==
    IF "crs" \in DOMAIN a THEN Raised("TypeError")
    ELSE IF {"left", "top", "right", "bottom"} \ (DOMAIN a) # {} THEN Raised("TypeError")
    ELSE LET l == lon_converter(a["left"], tie_up)
             t == lat_converter(a["top"], tie_up)
             r == lon_converter(a["right"], tie_up)
             b == lat_converter(a["bottom"], tie_up)
         IN  IF \E v \in {l, t, r, b} : ~IsNum(v) THEN Raised("TypeError")
             ELSE Returned([cls |-> "LatLonBBox", left |-> l, top |-> t, right |-> r,
                            bottom |-> b, crs |-> "EPSG:4326"])

\* mercantile.LngLatBbox(west, south, east, north)
LngLatBbox(w, s, e, n) == [t |-> "LngLatBbox", west |-> w, south |-> s, east |-> e, north |-> n]

\* LatLonBBox(*args, **kwargs): the positional values become the keywords _lln,
\* _llw, _lls, _lle, _llc, added after the caller's keywords
LatLonSlots == <<"_lln", "_llw", "_lls", "_lle", "_llc">>
LatLonBBoxInit_GenericOrder(args, kwargs, tie_up) ==
    LET a == BBoxResolve(args, kwargs)
    IN  IF a.exc # "" THEN a ELSE ll_attrs_init(Val(a.ret), tie_up)
LatLonBBoxInit(args, kwargs, tie_up) ==
    LET remap == Len(args) = 1 /\ Len(kwargs) = 0 /\ args[1].t = "LngLatBbox"
        args2 == IF remap
                 THEN <<args[1].north, args[1].west, args[1].south, args[1].east>>
                 ELSE args
        n == IF Len(args2) < 5 THEN Len(args2) ELSE 5
        extra_kwargs == [i \in 1..n |-> <<LatLonSlots[i], args2[i]>>]
        a == BBoxResolve(<<>>, kwargs \o extra_kwargs)
    IN  IF ~remap /\ Len(args) > 5 THEN Raised("TypeError")
        ELSE IF a.exc # "" THEN a
        ELSE ll_attrs_init(Val(a.ret), tie_up)

\* LatLonBBox.from_wgs84_order(w, s, e, n), whose body is not part of geo.py: it
\* refuses a latitude position that holds a value beyond the latitude extent (a
\* longitude put there) and a north below the south, and otherwise builds
\* LatLonBBox(n, w, s, e)
from_wgs84_order(w, s, e, n, tie_up) ==
    IF \E v \in {w, s, e, n} : ~IsNum(v) THEN Raised("TypeError")
    ELSE IF Less(LatLonExtents.lat, Abs(s)) \/ Less(LatLonExtents.lat, Abs(n))
    THEN Raised("ValueError")
    ELSE IF Less(n, s) THEN Raised("ValueError")
    ELSE LatLonBBoxInit(<<n, w, s, e>>, <<>>, tie_up)

----------------------------------------------------------------------------
(* Projector (geo.py)                                                      *)

(* The transforms use math.log, math.tan, math.atan and math.exp.  Their values, *)
(* rounded to 8 decimals as the code rounds them, are tabulated for the          *)
(* coordinates that the explored points have.                                    *)

\* round(lon * earth_circ / 180.0, 8)
mercator_x(lon) ==
    CASE lon = Zero -> Zero
      [] lon = Num(90, 0) -> Num(10018754, 171394620)
      [] lon = Num(-120, 0) -> Neg(Num(13358338, 895192830))
      [] lon = Num(180, 0) -> Num(20037508, 342789240)
      [] lon = Num(-180, 0) -> Neg(Num(20037508, 342789240))
      [] lon = Num(11, 90304050) -> Num(1234566, 999588580)
      [] lon = Num(179, 999999990) -> Num(20037508, 341676050)

\* round(degrees(log(tan((90 + lat) * pi / 360))) * earth_circ / 180.0, 8)
mercator_y(lat) ==
    CASE lat = Zero -> Zero
      [] lat = Num(10, 0) -> Num(1118889, 974857960)
      [] lat = Num(45, 0) -> Num(5621521, 486192070)
      [] lat = Num(85, 51129000) -> Num(20037508, 626929110)
      [] lat = Neg(Num(85, 51129000)) -> Neg(Num(20037508, 626929100))
      [] lat = Num(-45, 0) -> Neg(Num(5621521, 486192070))
      [] lat = Num(85, 51128800) -> Num(20037508, 368847040)
      [] lat = Num(85, 51128770) -> Num(20037508, 330134720)
      [] lat = Num(56, 478766830) -> Num(7654320, 999417210)
      [] lat = Num(0, 10) -> Num(0, 1113190)

\* round(mx / earth_circ * 180.0, 8)
inverse_x(mx) ==
    CASE mx = Zero -> Zero
      [] mx = Num(10018754, 171394620) -> Num(90, 0)
      [] mx = Num(20037508, 342789240) -> Num(180, 0)
      [] mx = Neg(Num(20037508, 342789240)) -> Num(-180, 0)
      [] mx = Neg(Num(13358338, 895192830)) -> Num(-120, 0)
      [] mx = Num(1234566, 999588580) -> Num(11, 90304050)
      [] mx = Num(20037508, 341676050) -> Num(179, 999999990)
      [] mx = Num(10, 0) -> Num(0, 89830)

\* round(180 / pi * (2 * atan(exp(radians(my / earth_circ * 180.0))) - pi / 2), 8)
inverse_y(my) ==
    CASE my = Zero -> Zero
      [] my = Num(10018754, 171394620) -> Num(66, 513260440)
      [] my = Num(20037508, 342789240) -> Num(85, 51128780)
      [] my = Neg(Num(20037508, 342789240)) -> Neg(Num(85, 51128780))
      [] my = Num(1118889, 974857960) -> Num(10, 0)
      [] my = Num(5621521, 486192070) -> Num(45, 0)
      [] my = Neg(Num(5621521, 486192070)) -> Num(-45, 0)
      [] my = Num(20037508, 330134720) -> Num(85, 51128770)
      [] my = Num(7654320, 999417210) -> Num(56, 478766830)
      [] my = Num(0, 1113190) -> Num(0, 10)
      [] my = Num(90, 0) -> Num(0, 808480)

\* Projector.latlon_to_xy(pnt): pnt is unpacked into lat and lon, whatever it is
latlon_to_xy_Clamping(pnt, tie_up) ==
    xyPoint(mercator_x(clamp(PointIter(pnt)[2], LatLonExtents.lon)),
            mercator_y(clamp(PointIter(pnt)[1], LatLonExtents.lat)), tie_up)
latlon_to_xy(pnt, tie_up) ==
    LET lat == PointIter(pnt)[1]
        lon == PointIter(pnt)[2]
    IN  IF ~Leq(Abs(lat), LatLonExtents.lat) THEN Raised("AssertionError")
        ELSE IF ~Leq(Abs(lon), LatLonExtents.lon) THEN Raised("AssertionError")
        ELSE xyPoint(mercator_x(lon), mercator_y(lat), tie_up)

\* Projector.xy_to_latlon(pnt)
xy_to_latlon_LonLat(pnt, tie_up) ==
    LET mx == PointIter(pnt)[1]
        my == PointIter(pnt)[2]
    IN  IF ~Leq(Abs(mx), xyExtents.x) THEN Raised("AssertionError")
        ELSE IF ~Leq(Abs(my), xyExtents.y) THEN Raised("AssertionError")
        ELSE LatLon(inverse_x(mx), inverse_y(my), tie_up)
xy_to_latlon(pnt, tie_up) ==
    LET mx == PointIter(pnt)[1]
        my == PointIter(pnt)[2]
    IN  IF ~Leq(Abs(mx), xyExtents.x) THEN Raised("AssertionError")
        ELSE IF ~Leq(Abs(my), xyExtents.y) THEN Raised("AssertionError")
        ELSE LatLon(inverse_y(my), inverse_x(mx), tie_up)

\* xyBBox(left, top, right, bottom): the attrs-generated __init__ of the subclass;
\* left and right go through x_xy_converter, top and bottom through y_xy_converter
xyBBox(left, top, right, bottom, tie_up) ==
    LET l == x_xy_converter(left, tie_up)
        t == y_xy_converter(top, tie_up)
        r == x_xy_converter(right, tie_up)
        b == y_xy_converter(bottom, tie_up)
    IN  IF \E v \in {l, t, r, b} : ~IsNum(v) THEN Raised("TypeError")
        ELSE Returned([cls |-> "xyBBox", left |-> l, top |-> t, right |-> r,
                       bottom |-> b, crs |-> "EPSG:3857"])

\* the properties tl and br: point_type(left, top) and point_type(right, bottom),
\* overridden in LatLonBBox as point_type(top, left) and point_type(bottom, right)
make_point(cls, a, b) ==
    CASE cls = "LatLon" -> LatLon(a, b, FALSE)
      [] cls = "xyPoint" -> xyPoint(a, b, FALSE)
      [] OTHER -> Point(a, b)
tl(bbox) ==
    IF bbox.cls = "LatLonBBox" THEN Val(make_point("LatLon", bbox.top, bbox.left).ret)
    ELSE Val(make_point(point_type(bbox.cls), bbox.left, bbox.top).ret)
br(bbox) ==
    IF bbox.cls = "LatLonBBox" THEN Val(make_point("LatLon", bbox.bottom, bbox.right).ret)
    ELSE Val(make_point(point_type(bbox.cls), bbox.right, bbox.bottom).ret)

\* the Python value None, as an out_crs and as a return value
NoneValue == [t |-> "none", cls |-> "NoneType"]

\* Projector(out_crs): instance_of(Union[str, int, None]), then _valid_crs, which
\* wants exactly one of "4326" and "3857" inside crs.lower()
valid_crs(crs) ==
    IF crs.t = "none" THEN ""
    ELSE IF crs.t = "num" THEN (IF crs.f = 0 THEN "AttributeError" ELSE "TypeError")
    ELSE LET crs_val == {x \in {"4326", "3857"} : IsSubstr(Chars(x), Lower(Chars(crs.s)))}
         IN  IF Cardinality(crs_val) # 1 THEN "ValueError" ELSE ""
Projector(out_crs) ==
    IF valid_crs(out_crs) # "" THEN Raised(valid_crs(out_crs))
    ELSE Returned([out_crs |-> out_crs])

\* Projector.project_point(pnt)
project_point(out_crs, pnt, tie_up) ==
    IF out_crs = Str("3857") \/ pnt.cls = "LatLon" THEN latlon_to_xy(pnt, tie_up)
    ELSE IF out_crs = Str("4326") \/ pnt.cls = "xyPoint" THEN xy_to_latlon(pnt, tie_up)
    ELSE Returned(NoneValue)

\* Projector.project_bbox(bbox)
project_bbox(out_crs, bbox, tie_up) ==
    LET a == project_point(out_crs, tl(bbox), tie_up)
        b == project_point(out_crs, br(bbox), tie_up)
    IN  IF out_crs = Str("3857") \/ bbox.cls = "LatLonBBox"
        THEN IF a.exc # "" THEN a
             ELSE IF b.exc # "" THEN b
             ELSE xyBBox(PointIter(Val(a.ret))[1], PointIter(Val(a.ret))[2],
                         PointIter(Val(b.ret))[1], PointIter(Val(b.ret))[2], tie_up)
        ELSE IF out_crs = Str("4326") \/ bbox.cls = "xyBBox"
        THEN IF a.exc # "" THEN a
             ELSE IF b.exc # "" THEN b
             ELSE LatLonBBoxInit(<<>>, <<<<"n", Val(a.ret).lat>>, <<"w", Val(a.ret).lon>>,
                                        <<"s", Val(b.ret).lat>>, <<"e", Val(b.ret).lon>>>>,
                                 tie_up)
        ELSE Returned(NoneValue)

\* Projector.project(obj): an obj without the attribute crs is not compared
BBoxClasses == {"BBoxBase", "BBox", "LatLonBBox", "xyBBox"}
PointClasses == {"Point", "LatLon", "xyPoint"}
project(out_crs, obj, tie_up) ==
    IF "crs" \in DOMAIN obj /\ Str(obj.crs) = out_crs THEN Returned(obj)
    ELSE IF obj.cls \in BBoxClasses THEN project_bbox(out_crs, obj, tie_up)
    ELSE IF obj.cls \in PointClasses THEN project_point(out_crs, obj, tie_up)
    ELSE Raised("NotImplementedError")

----------------------------------------------------------------------------
(* BaseMap (maps.py)                                                       *)

\* BaseMap(): no layers, no metadata
BaseMap == [layers |-> <<>>, layers_meta |-> EmptyDict]

\* no call made yet
NoEval == [op |-> ""]

\* BaseMap.z_idxs: the z-indices in the order of the metadata's keys, which are
\* inserted in increasing order of layer index
RECURSIVE z_idxs_from(_, _)
z_idxs_from(meta, keys) ==
    IF keys = {} THEN <<>>
    ELSE LET k == CHOOSE a \in keys : \A b \in keys : a <= b
         IN  <<meta[k].z_idx>> \o z_idxs_from(meta, keys \ {k})

z_idxs(m) == z_idxs_from(m.layers_meta, DOMAIN m.layers_meta)

\* BaseMap.z_max
z_max(m) == IF z_idxs(m) = <<>> THEN -1 ELSE SeqMax(z_idxs(m))

\* BaseMap._check_z_idx: the exception it raises when list.index finds new_z
\* among the recorded z-indices, "" when it returns True
check_z_idx_NeverRaises(m, new_z) == ""
check_z_idx(m, new_z) ==
    IF \E i \in 1..Len(z_idxs(m)) : z_idxs(m)[i] = new_z THEN "ValueError" ELSE ""

\* BaseMap.add_layer(layer, z_idx, tr): the layer is appended first, then the
\* z-index is defaulted and checked, then the metadata is recorded
add_layer(lyr, z_idx, tr) ==
    LET m1 == [map EXCEPT !.layers = @ \o <<lyr>>]
        lidx == Len(m1.layers) - 1
        z == IF IsNone(z_idx) THEN z_max(m1) + 1 ELSE Val(z_idx)
        chk == check_z_idx(m1, z)
    IN  IF chk # ""
        THEN /\ map' = m1
             /\ call' = [op |-> "add_layer", before |-> map, z_idx |-> z_idx,
                         exc |-> "ValueError", ret |-> None]
        ELSE /\ map' = [m1 EXCEPT !.layers_meta =
                            DictUpdate(@, [k \in {lidx} |-> [z_idx |-> z, tr |-> tr]])]
             /\ call' = [op |-> "add_layer", before |-> map, z_idx |-> z_idx,
                         exc |-> "", ret |-> Some(<<lidx, lyr>>)]

----------------------------------------------------------------------------
(* Layers and the downloaders they hold (maps.py, tiles.py)                *)

\* a url by the server and the resource it names; the urls above name no server
Url(host, path, placeholders) ==
    [placeholders |-> placeholders, has_png |-> FALSE, host |-> host, path |-> path]
BlankUrl == Url("", "", {})

\* TileDownloader subclasses built without arguments: url "", dicts of their own
NewTileDownloader(cls) ==
    [cls |-> cls, url |-> BlankUrl, params |-> EmptyDict, fields |-> [own |-> EmptyDict],
     headers |-> EmptyDict, tile_size |-> 256, tile_width |-> 256, tile_height |-> 256,
     meta_url |-> BlankUrl, metadata |-> {}]

\* what exists once maps.py and tiles.py are imported: the instance that is the
\* default of SlippyMapLayer.tile_downloader, the one of WmsMapLayer.tile_downloader,
\* the dict that is the default of get_tiles' parameter fields, and the dict that
\* is the default of WmsTileDownloader.meta_params
ImportedHeap ==
    ("SlippyMapLayer.tile_downloader" :> NewTileDownloader("SlippyTileDownloader"))
    @@ ("WmsMapLayer.tile_downloader" :> NewTileDownloader("WmsTileDownloader"))
    @@ ("get_tiles.fields" :> EmptyDict)
    @@ ("WmsTileDownloader.meta_params" :> EmptyDict)

LayerSlots == {"A", "B"}
NoLayers == [n \in LayerSlots |-> None]

\* the dict that a downloader's attribute fields refers to
FieldsOf(h, d) == IF "alias" \in DOMAIN d.fields THEN h[d.fields.alias] ELSE d.fields.own

\* the class attribute that holds the default downloader of a layer class
DefaultDownloader(cls) ==
    IF cls = "WmsMapLayer" THEN "WmsMapLayer.tile_downloader"
    ELSE "SlippyMapLayer.tile_downloader"

\* the GetMap endpoint that the capabilities document at base_url names
GetMapEndpoint(base_url) == Url(base_url.host, "getmap", {})

\* WmsMapLayer.__attrs_post_init__ on heap h: tile_width, tile_height and meta_url
\* are set, then get_metadata downloads the capabilities from meta_url with
\* params_override=meta_params and, unless it fails (answer names the exception),
\* clean_store_metadata stores the metadata and sets url to the endpoint found
wms_post_init(h, ref, base_url, tile_size, answer) ==
    LET d1 == [h[ref] EXCEPT !.tile_width = tile_size, !.tile_height = tile_size,
                             !.meta_url = base_url]
        mp == DictUpdate(h["WmsTileDownloader.meta_params"], [k \in {"format"} |-> "xml"])
        stored == {"max_height", "max_width", "formats", "styles", "crss", "bboxes", "titles"}
        d2 == CASE answer = "" -> [d1 EXCEPT !.metadata = stored,
                                             !.url = GetMapEndpoint(base_url)]
                [] answer = "KeyError" -> [d1 EXCEPT !.metadata = stored]
                [] OTHER -> d1
    IN  [exc |-> answer,
         requests |-> <<[url |-> base_url, params |-> mp]>>,
         heap |-> [h EXCEPT ![ref] = d2, !["WmsTileDownloader.meta_params"] = mp]]

\* tid_to_xy_bbox(tid): Projector(None).project(LatLonBBox(mercantile.bounds(x, y, z))),
\* tabulated for the tiles of zoom levels 0 and 1: the world spans the x and y
\* extents, rounded to 8 decimals, and a tile of level 1 spans a quarter of it
tid_to_xy_bbox(tid) ==
    LET ext == Num(20037508, 342789240)
        half == tid.z = 1
    IN  [cls |-> "xyBBox",
         left |-> IF half /\ tid.x = 1 THEN Zero ELSE Neg(ext),
         top |-> IF half /\ tid.y = 1 THEN Zero ELSE ext,
         right |-> IF half /\ tid.x = 0 THEN Zero ELSE ext,
         bottom |-> IF half /\ tid.y = 0 THEN Zero ELSE Neg(ext),
         crs |-> "EPSG:3857"]

\* xyBBox.wms_str: left,bottom,right,top
wms_str(bbox) == <<bbox.left, bbox.bottom, bbox.right, bbox.top>>

\* WmsTileDownloader.download_tile up to self.download: req_params is self.params
\* itself, so the request parameters are stored on the downloader
wms_params(d, tid) ==
    LET get_params == [k \in {"service", "request"} |->
                         IF k = "service" THEN "WMS" ELSE "GetMap"]
        p1 == DictUpdate(DictUpdate(d.params, get_params),
                         [k \in {"width", "height"} |->
                            IF k = "width" THEN d.tile_width ELSE d.tile_height])
        default_params == [version |-> "1.1.1", styles |-> "default", format |-> "jpeg",
                           scheme |-> "wmts", transparent |-> FALSE, layers |-> 0]
        defaults_set == [k \in DOMAIN default_params |-> DictGet(p1, k, default_params[k])]
        p2 == DictUpdate(p1, defaults_set)
        p3 == [p2 EXCEPT !["transparent"] = p2["format"] \in {"png", "webp", "tiff", "gif"}]
    IN  DictUpdate(p3, [k \in {"bbox", "srs"} |->
                          IF k = "bbox" THEN wms_str(tid_to_xy_bbox(tid))
                          ELSE tid_to_xy_bbox(tid).crs])

\* one iteration of the loop of get_tiles with a storage in memory: download_tile
\* stores the tile's z, x, y in the downloader's fields (Slippy) or the request
\* parameters in its params (Wms) and sends the request to the downloader's url
tile_request(h, ref, tid) ==
    LET d == h[ref]
        f == DictUpdate(FieldsOf(h, d), TileFields(tid))
        h1 == IF "alias" \in DOMAIN d.fields
              THEN [h EXCEPT ![d.fields.alias] = f]
              ELSE [h EXCEPT ![ref].fields = [own |-> f]]
    IN  IF d.cls = "WmsTileDownloader"
        THEN [heap |-> [h EXCEPT ![ref].params = wms_params(d, tid)],
              request |-> [url |-> d.url, params |-> wms_params(d, tid)]]
        ELSE [heap |-> h1, request |-> [url |-> d.url, params |-> d.params]]

\* the loop over the first k tile ids
RECURSIVE tile_requests(_, _, _, _)
tile_requests(h, ref, ids, k) ==
    IF k = 0 THEN [heap |-> h, requests |-> <<>>]
    ELSE LET before == tile_requests(h, ref, ids, k - 1)
             this == tile_request(before.heap, ref, ids[k])
         IN  [heap |-> this.heap, requests |-> Append(before.requests, this.request)]

\* the format of the tiles that download_tile builds
built_fmt(h, ref) ==
    IF h[ref].cls = "WmsTileDownloader" THEN h[ref].params["format"]
    ELSE FieldsOf(h, h[ref])["fmt"]

\* MapLayer.get_tiles(headers={}, fields=...) of layer l on heap h: fields is the
\* default dict unless the caller passes one (own_fields); the first n tiles are
\* fetched, and the fetch of the next one, if any, raises exc
layer_get_tiles(h, l, own_fields, n, exc) ==
    LET ref == l.tile_downloader
        ids == get_tile_ids(l.zoom_levels)
        fmt_field == [k \in {"fmt"} |-> l.fmt]
        h1 == IF own_fields THEN h
              ELSE [h EXCEPT !["get_tiles.fields"] = DictUpdate(@, fmt_field)]
        h2 == [h1 EXCEPT ![ref].url = l.base_url,
                         ![ref].fields = IF own_fields THEN [own |-> fmt_field]
                                         ELSE [alias |-> "get_tiles.fields"],
                         ![ref].headers = EmptyDict,
                         ![ref].params = EmptyDict]
        k == IF n < Len(ids) THEN n + 1 ELSE n
        loop == tile_requests(h2, ref, ids, k)
        got == [key \in {tile_path(Tile(ids[i], ImageBytes, built_fmt(loop.heap, ref))) :
                           i \in 1..n}
                  |-> Tile(CHOOSE t \in SeqElems(ids) : <<t.z, t.x, t.y>> = SubSeq(key, 1, 3),
                           ImageBytes, built_fmt(loop.heap, ref))]
    IN  [exc |-> IF n < Len(ids) THEN exc ELSE "",
         requests |-> loop.requests,
         heap |-> loop.heap,
         tiles |-> DictUpdate(l.tiles, got)]

----------------------------------------------------------------------------
(* A client that calls Downloader.download directly                        *)

ParamDicts == Dicts({"format"}, {"png", "xml"})
FieldDicts == Dicts({"fmt"}, {"png", "jpeg"})

NoCall == [name |-> "", before |-> EmptyDict, override |-> EmptyDict,
           extra |-> EmptyDict, res |-> EmptyDict]

NewDownloader(u, p, f, h, r, b) ==
    [url |-> u, params |-> p, fields |-> f, headers |-> h, retries |-> r, backoff_time |-> b]

InitDownload ==
    /\ \E r \in 0..MaxRetries, b \in 0..MaxBackoff, u \in {PlainUrl, FmtUrl} :
         dl = NewDownloader(u, EmptyDict, EmptyDict, EmptyDict, r, b)
    /\ frame = IdleFrame
    /\ eo = NoCall
    /\ storage = NewStorage("memory")
    /\ dol = IdleDol
    /\ ctor = NoCtor
    /\ layer = None
    /\ gt = IdleGt
    /\ map = BaseMap
    /\ call = NoEval
    /\ layers = NoLayers
    /\ heap = ImportedHeap

\* td.download(acceptable_status=..., params_override=..., ...)
DownloadCall ==
    /\ frame.pc = "idle"
    /\ \E acceptable \in {{}, {404}}, po \in ParamDicts, pe \in ParamDicts,
          fo \in FieldDicts, fe \in FieldDicts :
         DownloadEnter(acceptable, po, fo, EmptyDict, pe, fe, EmptyDict)
    /\ UNCHANGED <<eo, cacheVars, layerVars, geoVars, shareVars>>

DownloadStep ==
    /\ DownloadAttempt(Responses({Some(ImageBytes)}))
    /\ UNCHANGED <<eo, cacheVars, layerVars, geoVars, shareVars>>

DownloadGiveUp ==
    /\ DownloadExhausted
    /\ UNCHANGED <<eo, cacheVars, layerVars, geoVars, shareVars>>

NextDownload == DownloadCall \/ DownloadStep \/ DownloadGiveUp

SpecDownload == InitDownload /\ [][NextDownload]_vars

\* the interpreter runs a started call to its end
FairSpecDownload ==
    SpecDownload /\ WF_vars(DownloadStep) /\ WF_vars(DownloadGiveUp)

----------------------------------------------------------------------------
(* A client that calls Downloader._extra_override directly                 *)

OverrideDicts == Dicts({"p", "x"}, {"a", "b"})

InitOverride ==
    /\ \E var \in {"params", "fields", "headers"}, self_v \in OverrideDicts :
         dl = [NewDownloader(PlainUrl, EmptyDict, EmptyDict, EmptyDict, 5, 1)
                 EXCEPT ![var] = self_v]
    /\ frame = IdleFrame
    /\ eo = NoCall
    /\ storage = NewStorage("memory")
    /\ dol = IdleDol
    /\ ctor = NoCtor
    /\ layer = None
    /\ gt = IdleGt
    /\ map = BaseMap
    /\ call = NoEval
    /\ layers = NoLayers
    /\ heap = ImportedHeap

\* td._extra_override(name, override, extra)
ExtraOverrideCall ==
    /\ eo.name = ""
    /\ \E name \in {"params", "fields", "headers"},
          override \in OverrideDicts, extra \in OverrideDicts :
         /\ eo' = [name |-> name, before |-> dl[name], override |-> override,
                   extra |-> extra, res |-> extra_override(dl[name], override, extra)]
         /\ dl' = [dl EXCEPT ![name] = extra_override_self(dl[name], override, extra)]
    /\ UNCHANGED <<frame, cacheVars, layerVars, geoVars, shareVars>>

NextOverride == ExtraOverrideCall

SpecOverride == InitOverride /\ [][NextOverride]_vars

----------------------------------------------------------------------------
(* A client that uses one TileStorage and one SlippyTileDownloader         *)

CacheTids == {TileID(0, 0, 0), TileID(1, 0, 1)}

InitCache ==
    /\ \E r \in 0..MaxRetries, u \in {SlippyUrl, SlippyFmtUrl},
          f \in Dicts({"fmt"}, {"png"}) :
         dl = NewDownloader(u, EmptyDict, f, EmptyDict, r, 1)
    /\ frame = IdleFrame
    /\ eo = NoCall
    /\ \E mode \in {"memory", "disk"} : storage = NewStorage(mode)
    /\ dol = IdleDol
    /\ ctor = NoCtor
    /\ layer = None
    /\ gt = IdleGt
    /\ map = BaseMap
    /\ call = NoEval
    /\ layers = NoLayers
    /\ heap = ImportedHeap

\* S.add_tile(tile)
AddTileCall ==
    /\ dol.pc = "idle"
    /\ \E tid \in CacheTids, data \in {EmptyBytes, ImageBytes}, fmt \in {"jpeg", "png"} :
         \E o \in add_tile(storage, Tile(tid, data, fmt)) : storage' = o.S
    /\ UNCHANGED <<dl, frame, eo, dol, layerVars, geoVars, shareVars>>

\* td.download_or_local(tid, S), td.download_or_local(tid)
DolCall ==
    /\ dol.pc = "idle"
    /\ \E tid \in CacheTids, folder \in BOOLEAN : download_or_local_enter(tid, folder)
    /\ UNCHANGED <<eo, storage, layerVars, geoVars, shareVars>>

DolFetchStep ==
    /\ dol.pc = "fetching"
    /\ DownloadAttempt(Responses(Contents))
    /\ UNCHANGED <<eo, cacheVars, layerVars, geoVars, shareVars>>

DolFetchGiveUp ==
    /\ dol.pc = "fetching"
    /\ DownloadExhausted
    /\ UNCHANGED <<eo, cacheVars, layerVars, geoVars, shareVars>>

DolFinish ==
    /\ download_or_local_finish
    /\ UNCHANGED <<eo, layerVars, geoVars, shareVars>>

\* the call is over and the client goes on
DolReturn ==
    /\ DolOver
    /\ dol' = IdleDol
    /\ frame' = IdleFrame
    /\ UNCHANGED <<dl, eo, storage, layerVars, geoVars, shareVars>>

NextCache ==
    AddTileCall \/ DolCall \/ DolFetchStep \/ DolFetchGiveUp \/ DolFinish \/ DolReturn

SpecCache == InitCache /\ [][NextCache]_vars

----------------------------------------------------------------------------
(* A program run that constructs a MapLayer                                *)

ZoomChoices == {-1, 0, 1, 2, 22, 23}

ZoomLists == UNION {[1..n -> ZoomChoices] : n \in 0..MaxZoomList}

InitConstruct ==
    /\ dl = NewDownloader(PlainUrl, EmptyDict, EmptyDict, EmptyDict, 5, 1)
    /\ frame = IdleFrame
    /\ eo = NoCall
    /\ storage = NewStorage("memory")
    /\ dol = IdleDol
    /\ ctor = NoCtor
    /\ layer = None
    /\ gt = IdleGt
    /\ map = BaseMap
    /\ call = NoEval
    /\ layers = NoLayers
    /\ heap = ImportedHeap

\* MapLayer(bbox, zoom_levels, url)
NewMapLayer ==
    /\ ~ctor.called
    /\ \E zoom_levels \in ZoomLists, fmt \in {"jpeg", "png"} :
         MapLayerInit(zoom_levels, FALSE, FALSE, fmt)
    /\ UNCHANGED <<dl, frame, eo, cacheVars, gt, geoVars, shareVars>>

NextConstruct == NewMapLayer

SpecConstruct == InitConstruct /\ [][NextConstruct]_vars

----------------------------------------------------------------------------
(* A program run that constructs a SlippyMapLayer and calls get_tiles      *)

RunZoomLists == {<<>>, <<0>>, <<1, 0>>, <<0, 1, 2>>, <<1, 1>>, <<23>>}

\* what a directory under temp_path or cache_path may hold when the run starts
FileOf(tid, ext) == <<tid.z, tid.x, tid.y, ext>>
WarmDir(zooms, ext) ==
    [f \in {FileOf(get_tile_ids(zooms)[i], ext) : i \in 1..Len(get_tile_ids(zooms))}
       |-> ImageBytes]
StartDirs ==
    {EmptyDict,
     WarmDir(<<0, 1>>, "png"),
     DictUpdate(WarmDir(<<0, 1>>, "jpeg"), [f \in {<<0, 0, 0, "jpeg">>} |-> EmptyBytes]),
     DictUpdate(WarmDir(<<0>>, "png"), WarmDir(<<0, 1, 2>>, "jpeg"))}

InitLayer ==
    /\ \E r \in 1..MaxRetries :
         dl = NewDownloader(PlainUrl, EmptyDict, EmptyDict, EmptyDict, r, 1)
    /\ frame = IdleFrame
    /\ eo = NoCall
    /\ \E dir \in StartDirs : storage = [NewStorage("disk") EXCEPT !.files = dir]
    /\ dol = IdleDol
    /\ ctor = NoCtor
    /\ layer = None
    /\ gt = IdleGt
    /\ map = BaseMap
    /\ call = NoEval
    /\ layers = NoLayers
    /\ heap = ImportedHeap

\* SlippyMapLayer(bbox=(-180, -85, 180, 85), zoom_levels=..., base_url=..., ...)
NewSlippyMapLayer ==
    /\ ~ctor.called
    /\ \E zoom_levels \in RunZoomLists, temp_path \in BOOLEAN, cache_path \in BOOLEAN,
          fmt \in {"jpeg", "png"} :
         MapLayerInit(zoom_levels, temp_path, cache_path, fmt)
    /\ UNCHANGED <<dl, frame, eo, cacheVars, gt, geoVars, shareVars>>

\* layer.get_tiles()
GetTilesCall ==
    /\ ~IsNone(layer)
    /\ get_tiles_enter
    /\ UNCHANGED <<eo, geoVars, shareVars>>

GetTilesNext ==
    /\ get_tiles_next
    /\ UNCHANGED <<eo, geoVars, shareVars>>

GetTilesFetchStep ==
    /\ gt.pc = "loop"
    /\ dol.pc = "fetching"
    /\ DownloadAttempt(RunResponses)
    /\ UNCHANGED <<eo, cacheVars, layerVars, geoVars, shareVars>>

GetTilesFetchGiveUp ==
    /\ gt.pc = "loop"
    /\ dol.pc = "fetching"
    /\ DownloadExhausted
    /\ UNCHANGED <<eo, cacheVars, layerVars, geoVars, shareVars>>

GetTilesFetched ==
    /\ gt.pc = "loop"
    /\ download_or_local_finish
    /\ UNCHANGED <<eo, layerVars, geoVars, shareVars>>

GetTilesResume ==
    /\ get_tiles_resume
    /\ UNCHANGED <<eo, geoVars, shareVars>>

GetTilesReturn ==
    /\ get_tiles_return
    /\ UNCHANGED <<eo, geoVars, shareVars>>

\* the program is over and is run again with the same arguments: a new layer
\* object over the directory that the first run left under cache_path
RunAgain ==
    /\ gt.pc = "returned"
    /\ call = NoEval
    /\ Val(layer).cache_path /\ ~Val(layer).temp_path
    /\ call' = [op |-> "first_run", tiles |-> Val(layer).tiles, calls |-> gt.calls,
                fetches |-> gt.fetches]
    /\ layer' = Some([Val(layer) EXCEPT !.tiles = EmptyDict])
    /\ gt' = IdleGt
    /\ UNCHANGED <<dl, frame, eo, cacheVars, ctor, map, shareVars>>

NextLayer ==
    \/ NewSlippyMapLayer
    \/ GetTilesCall
    \/ GetTilesNext
    \/ GetTilesFetchStep
    \/ GetTilesFetchGiveUp
    \/ GetTilesFetched
    \/ GetTilesResume
    \/ GetTilesReturn
    \/ RunAgain

SpecLayer == InitLayer /\ [][NextLayer]_vars

----------------------------------------------------------------------------
(* A program run that builds a BaseMap layer by layer                      *)

LayerNames == {"osm", "wms"}
ZIdxChoices == {None, Some(-1), Some(0), Some(1), Some(3)}

InitMap ==
    /\ dl = NewDownloader(PlainUrl, EmptyDict, EmptyDict, EmptyDict, 5, 1)
    /\ frame = IdleFrame
    /\ eo = NoCall
    /\ storage = NewStorage("memory")
    /\ dol = IdleDol
    /\ ctor = NoCtor
    /\ layer = None
    /\ gt = IdleGt
    /\ map = BaseMap
    /\ call = NoEval
    /\ layers = NoLayers
    /\ heap = ImportedHeap

\* map.add_layer(layer), map.add_layer(layer, z_idx)
AddLayerCall ==
    /\ Len(map.layers) < MaxLayers
    /\ \E lyr \in LayerNames, z_idx \in ZIdxChoices : add_layer(lyr, z_idx, 0)
    /\ UNCHANGED <<dl, frame, eo, cacheVars, layerVars, shareVars>>

NextMap == AddLayerCall

SpecMap == InitMap /\ [][NextMap]_vars

----------------------------------------------------------------------------
(* A program that flips tile ids and walks the tile quadtree               *)

\* TileID(z, x, y, scheme): x and y are not validated against 0..2^z-1
TileIDs ==
    {[z |-> z, x |-> x, y |-> y, scheme |-> sch] :
        z \in 0..MaxTileZoom, x \in -1..Pow(2, MaxTileZoom), y \in -1..Pow(2, MaxTileZoom),
        sch \in {"xyz", "tms"}}

InitTileID ==
    /\ dl = NewDownloader(PlainUrl, EmptyDict, EmptyDict, EmptyDict, 5, 1)
    /\ frame = IdleFrame
    /\ eo = NoCall
    /\ storage = NewStorage("memory")
    /\ dol = IdleDol
    /\ ctor = NoCtor
    /\ layer = None
    /\ gt = IdleGt
    /\ map = BaseMap
    /\ call = NoEval
    /\ layers = NoLayers
    /\ heap = ImportedHeap

\* tid._swap_scheme() and tid._swap_scheme()._swap_scheme()
SwapSchemeCall ==
    /\ call = NoEval
    /\ \E tid \in TileIDs :
         call' = [op |-> "_swap_scheme", tid |-> tid, once |-> swap_scheme(tid),
                  twice |-> swap_scheme(swap_scheme(tid))]
    /\ UNCHANGED <<dl, frame, eo, cacheVars, layerVars, map, shareVars>>

\* tile.flip_scheme(), once and twice
FlipSchemeCall ==
    /\ call = NoEval
    /\ \E tid \in TileIDs, data \in {EmptyBytes, ImageBytes} :
         LET tile == Tile(tid, data, "png")
         IN  call' = [op |-> "flip_scheme", tile |-> tile, once |-> flip_scheme(tile),
                      twice |-> flip_scheme(flip_scheme(tile))]
    /\ UNCHANGED <<dl, frame, eo, cacheVars, layerVars, map, shareVars>>

\* tid.parent, tid.children, tid.siblings
ParentCall ==
    /\ call = NoEval
    /\ \E tid \in TileIDs :
         call' = [op |-> "parent", tid |-> tid, exc |-> parent(tid).exc,
                  ret |-> parent(tid).ret]
    /\ UNCHANGED <<dl, frame, eo, cacheVars, layerVars, map, shareVars>>

ChildrenCall ==
    /\ call = NoEval
    /\ \E tid \in TileIDs :
         call' = [op |-> "children", tid |-> tid, exc |-> children(tid).exc,
                  ret |-> children(tid).ret]
    /\ UNCHANGED <<dl, frame, eo, cacheVars, layerVars, map, shareVars>>

SiblingsCall ==
    /\ call = NoEval
    /\ \E tid \in TileIDs :
         call' = [op |-> "siblings", tid |-> tid, exc |-> siblings(tid).exc,
                  ret |-> siblings(tid).ret]
    /\ UNCHANGED <<dl, frame, eo, cacheVars, layerVars, map, shareVars>>

NextTileID == SwapSchemeCall \/ FlipSchemeCall \/ ParentCall \/ ChildrenCall \/ SiblingsCall

SpecTileID == InitTileID /\ [][NextTileID]_vars

----------------------------------------------------------------------------
(* A program that builds points and boxes and projects them (geo.py)       *)

\* latitudes and longitudes passed to LatLon: on, next to and beyond the extents,
\* with 9 decimals, half-way between two 8-decimal values, and a str
LatInputs ==
    {Zero, Num(10, 0), Num(85, 51129000), Num(85, 51129001), Num(85, 51128999),
     Num(-86, 948871000), Num(-86, 948870999), Num(100, 0), Num(-100, 0),
     Num(45, 123456785), Num(-46, 999999995), Num(45, 999999996), Str("12.0")}
LonInputs ==
    {Zero, Num(180, 0), Num(180, 1), Num(-180, 0), Num(-181, 999999999),
     Num(200, 0), Num(-200, 0), Num(179, 999999996), Num(-123, 456789012)}
\* x and y passed to xyPoint
XYInputs ==
    {Zero, Num(20037508, 342789244), Num(20037508, 342789245), Num(20037508, 342789240),
     Num(-20037509, 657210756), Num(-20037509, 657210755), Num(40075016, 685578488),
     Num(-40075017, 314421512), Num(1000, 5), Num(-3, 999999994), Str("12.0")}

InitGeo ==
    /\ dl = NewDownloader(PlainUrl, EmptyDict, EmptyDict, EmptyDict, 5, 1)
    /\ frame = IdleFrame
    /\ eo = NoCall
    /\ storage = NewStorage("memory")
    /\ dol = IdleDol
    /\ ctor = NoCtor
    /\ layer = None
    /\ gt = IdleGt
    /\ map = BaseMap
    /\ call = NoEval
    /\ layers = NoLayers
    /\ heap = ImportedHeap

\* LatLon(lat, lon)
LatLonCall ==
    /\ call = NoEval
    /\ \E lat \in LatInputs, lon \in LonInputs, tie_up \in BOOLEAN :
         call' = [op |-> "LatLon", a |-> lat, b |-> lon,
                  exc |-> LatLon(lat, lon, tie_up).exc, ret |-> LatLon(lat, lon, tie_up).ret]
    /\ UNCHANGED <<dl, frame, eo, cacheVars, layerVars, map, shareVars>>

\* xyPoint(x, y)
xyPointCall ==
    /\ call = NoEval
    /\ \E x \in XYInputs, y \in XYInputs, tie_up \in BOOLEAN :
         call' = [op |-> "xyPoint", a |-> x, b |-> y,
                  exc |-> xyPoint(x, y, tie_up).exc, ret |-> xyPoint(x, y, tie_up).ret]
    /\ UNCHANGED <<dl, frame, eo, cacheVars, layerVars, map, shareVars>>

\* edges of the generic boxes and coordinates of the points tested against them
EdgeInputs == {Num(-10, 0), Zero, Num(10, 0)}
CoordInputs == {Num(-10, 0), Num(-5, 0), Zero, Num(9, 999999999), Num(10, 0), Num(11, 0)}

\* objects that may stand on the left of `in`: points of the three classes and a tuple
PointObjects ==
    {Val(Point(x, y).ret) : x \in CoordInputs, y \in CoordInputs}
    \cup {Val(LatLon(x, y, FALSE).ret) : x \in {Zero, Num(-5, 0)}, y \in {Zero}}
    \cup {Val(xyPoint(x, y, FALSE).ret) : x \in {Zero, Num(-5, 0)}, y \in {Zero}}
    \cup {[cls |-> "tuple", x |-> Zero, y |-> Zero]}

\* pnt in BBoxBase(left, top, right, bottom)
ContainsCall ==
    /\ call = NoEval
    /\ \E l \in EdgeInputs, t \in EdgeInputs, r \in EdgeInputs, b \in EdgeInputs,
          pnt \in PointObjects :
         LET bbox == Val(BBoxBase(l, t, r, b, Str("")).ret)
         IN  call' = [op |-> "contains", bbox |-> bbox, pnt |-> pnt,
                      ret |-> contains(bbox, pnt)]
    /\ UNCHANGED <<dl, frame, eo, cacheVars, layerVars, map, shareVars>>

\* LatLon(lat, lon) in LatLonBBox(north, west, south, east)
LatLonContainsCall ==
    /\ call = NoEval
    /\ \E n \in EdgeInputs, w \in EdgeInputs, s \in EdgeInputs, e \in EdgeInputs,
          lat \in CoordInputs, lon \in CoordInputs :
         LET bbox == Val(LatLonBBoxInit(<<n, w, s, e>>, <<>>, FALSE).ret)
             pnt == Val(LatLon(lat, lon, FALSE).ret)
         IN  call' = [op |-> "latlon_contains", bbox |-> bbox, pnt |-> pnt,
                      ret |-> contains(bbox, pnt)]
    /\ UNCHANGED <<dl, frame, eo, cacheVars, layerVars, map, shareVars>>

\* BBox(*args, **kwargs): args is a prefix of (1, 2, 3, 4, "x", 6, ...) or starts
\* with a str; kwargs holds up to two keywords, or one of the full keyword sets
ArgValue(i) == IF i = 5 THEN Str("x") ELSE Num(i, 0)
ArgLists ==
    {[i \in 1..n |-> ArgValue(i)] : n \in 0..MaxArgs}
    \cup {<<Str("x"), Num(1, 0), Num(2, 0), Num(3, 0), Num(4, 0)>>}
Keywords ==
    {"left", "top", "right", "Bottom", "crs", "srs", "W", "N", "up", "mInx", "xxx", "potato"}
KwValue(k) ==
    CASE k \in {"crs", "srs"} -> Str("y")
      [] k = "left" -> Num(11, 0)
      [] k = "top" -> Num(12, 0)
      [] k = "right" -> Num(13, 0)
      [] k = "Bottom" -> Num(14, 0)
      [] k = "W" -> Num(21, 0)
      [] k = "N" -> Num(22, 0)
      [] k = "up" -> Num(32, 0)
      [] k = "mInx" -> Num(41, 0)
      [] OTHER -> Num(0, 0)
KwOf(ks) == [i \in 1..Len(ks) |-> <<ks[i], KwValue(ks[i])>>]
KwLists ==
    {KwOf(<<>>)}
    \cup {KwOf(<<k>>) : k \in Keywords}
    \cup {KwOf(<<p[1], p[2]>>) : p \in {q \in Keywords \X Keywords : q[1] # q[2]}}
    \cup {KwOf(<<"left", "top", "right", "Bottom">>),
          KwOf(<<"left", "top", "right", "Bottom", "crs">>),
          KwOf(<<"left", "top", "right", "xxx">>),
          KwOf(<<"left", "top", "right", "crs">>),
          KwOf(<<"W", "Bottom", "N", "right">>),
          KwOf(<<"left", "W", "top", "right", "Bottom">>)}

BBoxCall ==
    /\ call = NoEval
    /\ \E args \in ArgLists, kwargs \in KwLists :
         call' = [op |-> "BBox", args |-> args, kwargs |-> kwargs,
                  exc |-> BBoxInit("BBox", args, kwargs).exc,
                  ret |-> BBoxInit("BBox", args, kwargs).ret]
    /\ UNCHANGED <<dl, frame, eo, cacheVars, layerVars, map, shareVars>>

\* LatLonBBox(n, w, s, e), LatLonBBox(n, w, s, e, crs, ...), LatLonBBox(bounds) with
\* a mercantile.LngLatBbox, and the keyword form; then tuple(bbox)
NorthInputs == {Num(60, 0), Num(85, 51129000), Num(100, 0), Num(10, 123456789)}
WestInputs == {Num(-120, 0), Num(-200, 0)}
SouthInputs == {Num(-30, 0), Num(70, 0), Str("12.0")}
EastInputs == {Num(150, 0), Num(-130, 0)}
LatLonArgLists ==
    UNION {{<<n, w, s, e>>, <<n, w, s>>, <<n, w, s, e, Str("x")>>,
            <<n, w, s, e, Str("x"), Num(6, 0)>>, <<LngLatBbox(w, s, e, n)>>} :
              n \in NorthInputs, w \in WestInputs, s \in SouthInputs, e \in EastInputs}
LatLonKwLists ==
    {<<>>, <<<<"N", Num(22, 0)>>>>, <<<<"e", Num(13, 0)>>>>,
     <<<<"n", Num(22, 0)>>, <<"w", Num(-21, 0)>>, <<"s", Num(-22, 0)>>, <<"e", Num(21, 0)>>>>}

LatLonBBoxCall ==
    /\ call = NoEval
    /\ \E args \in LatLonArgLists \cup {<<>>}, kwargs \in LatLonKwLists, tie_up \in BOOLEAN :
         LET r == LatLonBBoxInit(args, kwargs, tie_up)
         IN  call' = [op |-> "LatLonBBox", args |-> args, kwargs |-> kwargs,
                      exc |-> r.exc, ret |-> r.ret,
                      iter |-> IF r.exc = "" THEN BBoxIter(Val(r.ret)) ELSE <<>>]
    /\ UNCHANGED <<dl, frame, eo, cacheVars, layerVars, map, shareVars>>

\* LatLonBBox.from_wgs84_order(w, s, e, n) with the extents in every position and
\* with values inside them
Wgs84Inputs ==
    {Num(-180, 0), Num(180, 0), Num(-86, 948871000), Num(85, 51129000),
     Num(-30, 0), Num(60, 0)}

FromWgs84Call ==
    /\ call = NoEval
    /\ \E w \in Wgs84Inputs, s \in Wgs84Inputs, e \in Wgs84Inputs, n \in Wgs84Inputs,
          tie_up \in BOOLEAN :
         LET r == from_wgs84_order(w, s, e, n, tie_up)
         IN  call' = [op |-> "from_wgs84_order", w |-> w, s |-> s, e |-> e, n |-> n,
                      exc |-> r.exc, ret |-> r.ret,
                      iter |-> IF r.exc = "" THEN BBoxIter(Val(r.ret)) ELSE <<>>]
    /\ UNCHANGED <<dl, frame, eo, cacheVars, layerVars, map, shareVars>>

\* points handed to the Projector: LatLon and xyPoint instances, built by their
\* constructors from values in and out of range, and Points and tuples that carry
\* whatever they were given
ProjLats == {Zero, Num(10, 0), Num(45, 0), Num(85, 51129000), Num(100, 0), Num(-100, 0)}
ProjLons == {Zero, Num(90, 0), Num(-120, 0), Num(180, 0), Num(200, 0), Num(-200, 0)}
ProjXYs ==
    {Zero, Num(10018754, 171394620), Num(20037508, 342789244),
     Num(40075016, 685578488), Num(-40075017, 314421512)}
RawLatLons ==
    {<<Zero, Zero>>, <<Num(100, 0), Zero>>, <<Zero, Num(200, 0)>>,
     <<Num(85, 51129001), Zero>>, <<Num(-86, 948870999), Num(90, 0)>>,
     <<Num(45, 0), Num(-181, 999999999)>>, <<Num(45, 0), Num(180, 0)>>}
RawXYs ==
    {<<Zero, Zero>>, <<Num(20037508, 342789245), Zero>>, <<Zero, Num(-20037509, 657210755)>>,
     <<Num(40075016, 685578488), Zero>>, <<Num(20037508, 342789240), Num(10018754, 171394620)>>}
RawPoints(pairs) ==
    {Val(Point(q[1], q[2]).ret) : q \in pairs}
    \cup {[cls |-> "tuple", x |-> q[1], y |-> q[2]] : q \in pairs}

LatLonToXyCall ==
    /\ call = NoEval
    /\ \E pnt \in {Val(LatLon(a, b, FALSE).ret) : a \in ProjLats, b \in ProjLons}
                    \cup RawPoints(RawLatLons),
          tie_up \in BOOLEAN :
         call' = [op |-> "latlon_to_xy", pnt |-> pnt,
                  exc |-> latlon_to_xy(pnt, tie_up).exc,
                  ret |-> latlon_to_xy(pnt, tie_up).ret]
    /\ UNCHANGED <<dl, frame, eo, cacheVars, layerVars, map, shareVars>>

XyToLatLonCall ==
    /\ call = NoEval
    /\ \E pnt \in {Val(xyPoint(a, b, FALSE).ret) : a \in ProjXYs, b \in ProjXYs}
                    \cup RawPoints(RawXYs),
          tie_up \in BOOLEAN :
         call' = [op |-> "xy_to_latlon", pnt |-> pnt,
                  exc |-> xy_to_latlon(pnt, tie_up).exc,
                  ret |-> xy_to_latlon(pnt, tie_up).ret]
    /\ UNCHANGED <<dl, frame, eo, cacheVars, layerVars, map, shareVars>>

\* points and boxes inside the extents that are projected there and back: the
\* origin, inner values, the smallest step, the extents, and latitudes next to
\* the extent, whose y lies beyond the y extent
TripLats ==
    {Zero, Num(10, 0), Num(45, 0), Num(-45, 0), Num(0, 10), Num(56, 478766830),
     Num(85, 51128770), Num(85, 51128800), Num(85, 51129000), Neg(Num(85, 51129000))}
TripLons ==
    {Zero, Num(90, 0), Num(-120, 0), Num(11, 90304050), Num(179, 999999990),
     Num(180, 0), Num(-180, 0)}

\* xy_to_latlon(latlon_to_xy(pnt))
RoundTripCall ==
    /\ call = NoEval
    /\ \E lat \in TripLats, lon \in TripLons, tie_up \in BOOLEAN :
         LET pnt == Val(LatLon(lat, lon, tie_up).ret)
             there == latlon_to_xy(pnt, tie_up)
             back == IF there.exc # "" THEN there
                     ELSE xy_to_latlon(Val(there.ret), tie_up)
         IN  call' = [op |-> "round_trip", pnt |-> pnt, there |-> there.ret,
                      exc |-> back.exc, ret |-> back.ret]
    /\ UNCHANGED <<dl, frame, eo, cacheVars, layerVars, map, shareVars>>

\* Projector("EPSG:4326").project(Projector("EPSG:3857").project(LatLonBBox(n, w, s, e)))
BBoxRoundTripCall ==
    /\ call = NoEval
    /\ \E n \in {Num(10, 0), Num(45, 0), Num(85, 51129000)},
          s \in {Zero, Num(-45, 0), Neg(Num(85, 51129000))},
          w \in {Zero, Num(-120, 0), Num(-180, 0)},
          e \in {Num(11, 90304050), Num(90, 0), Num(180, 0)},
          tie_up \in BOOLEAN :
         \E bbox \in {Val(LatLonBBoxInit(<<n, w, s, e>>, <<>>, tie_up).ret)} :
           \E there \in {project(Str("EPSG:3857"), bbox, tie_up)} :
             LET back == IF there.exc # "" THEN there
                         ELSE project(Str("EPSG:4326"), Val(there.ret), tie_up)
             IN  call' = [op |-> "bbox_round_trip", bbox |-> bbox, there |-> there.ret,
                          exc |-> back.exc, ret |-> back.ret]
    /\ UNCHANGED <<dl, frame, eo, cacheVars, layerVars, map, shareVars>>

\* the values of out_crs that a program may pass to Projector
CrsInputs ==
    {Str("EPSG:3857"), Str("EPSG:4326"), Str("3857"), Str("4326"), Str("epsg:3857"),
     Str("EPSG:900913"), Str("4326,3857"), NoneValue}

\* a point and a bbox of each class, in degrees or in metres as the class asks
ProjectObjects ==
    {Val(LatLon(Num(10, 0), Num(90, 0), FALSE).ret),
     Val(xyPoint(Num(10018754, 171394620), Num(1118889, 974857960), FALSE).ret),
     Val(Point(Num(10, 0), Num(90, 0)).ret),
     Val(LatLonBBoxInit(<<Num(10, 0), Zero, Zero, Num(90, 0)>>, <<>>, FALSE).ret),
     Val(xyBBox(Zero, Num(1118889, 974857960), Num(10018754, 171394620), Zero, FALSE).ret),
     Val(BBoxBase(Num(10, 0), Num(90, 0), Zero, Zero, Str("")).ret)}

\* Projector(out_crs).project(obj)
ProjectCall ==
    /\ call = NoEval
    /\ \E out_crs \in CrsInputs, obj \in ProjectObjects, tie_up \in BOOLEAN :
         LET p == Projector(out_crs)
             r == IF p.exc # "" THEN p ELSE project(out_crs, obj, tie_up)
         IN  call' = [op |-> "project", out_crs |-> out_crs, obj |-> obj,
                      built |-> p.exc = "", exc |-> r.exc, ret |-> r.ret]
    /\ UNCHANGED <<dl, frame, eo, cacheVars, layerVars, map, shareVars>>

NextGeo ==
    \/ LatLonCall
    \/ xyPointCall
    \/ ContainsCall
    \/ BBoxCall
    \/ LatLonBBoxCall
    \/ FromWgs84Call
    \/ LatLonToXyCall
    \/ XyToLatLonCall
    \/ RoundTripCall
    \/ BBoxRoundTripCall
    \/ LatLonContainsCall
    \/ ProjectCall

SpecGeo == InitGeo /\ [][NextGeo]_vars

----------------------------------------------------------------------------
(* A program that builds two map layers and fetches their tiles            *)

\* the downloader that the program builds for a layer when it passes one
OwnDownloader(name) == IF name = "A" THEN "downloader_A" ELSE "downloader_B"
\* the server of a layer: its tile url, or the url of its WMS capabilities
BaseUrl(name, cls) ==
    LET host == IF name = "A" THEN "a.example" ELSE "b.example"
    IN  IF cls = "WmsMapLayer" THEN Url(host, "capabilities", {})
        ELSE Url(host, "tiles", {"z", "x", "y"})

InitShare ==
    /\ dl = NewDownloader(PlainUrl, EmptyDict, EmptyDict, EmptyDict, 5, 1)
    /\ frame = IdleFrame
    /\ eo = NoCall
    /\ storage = NewStorage("memory")
    /\ dol = IdleDol
    /\ ctor = NoCtor
    /\ layer = None
    /\ gt = IdleGt
    /\ map = BaseMap
    /\ call = NoEval
    /\ layers = NoLayers
    /\ heap = ImportedHeap

\* what the program asks of its layers: jpeg tiles of zoom level 0 with the
\* default tile size from A, larger png tiles of zoom level 1 from B
Asked(name) ==
    IF name = "A" THEN [fmt |-> "jpeg", zoom_levels |-> <<0>>, tile_size |-> 256]
    ELSE [fmt |-> "png", zoom_levels |-> <<1>>, tile_size |-> 512]

\* SlippyMapLayer(bbox, zoom_levels, base_url, fmt=..., tile_size=...) or
\* WmsMapLayer(...), with tile_downloader=<a new downloader> when explicit
NewLayerCall ==
    \E name \in LayerSlots, cls \in {"SlippyMapLayer", "WmsMapLayer"}, explicit \in BOOLEAN,
       answer \in {"", "DownloadError", "KeyError"} :
      LET ref == IF explicit THEN OwnDownloader(name) ELSE DefaultDownloader(cls)
          fmt == Asked(name).fmt
          zoom_levels == Asked(name).zoom_levels
          tile_size == Asked(name).tile_size
          made == IF cls = "WmsMapLayer" THEN NewTileDownloader("WmsTileDownloader")
                  ELSE NewTileDownloader("SlippyTileDownloader")
          h0 == IF explicit THEN (ref :> made) @@ heap ELSE heap
          base_url == BaseUrl(name, cls)
          r == IF cls = "WmsMapLayer"
               THEN wms_post_init(h0, ref, base_url, tile_size, answer)
               ELSE [exc |-> "", requests |-> <<>>, heap |-> h0]
          l == [cls |-> cls, base_url |-> base_url, zoom_levels |-> zoom_levels,
                fmt |-> fmt, tile_size |-> tile_size, tile_downloader |-> ref,
                tiles |-> EmptyDict, runs |-> 0]
      IN  /\ IsNone(layers[name])
          /\ cls = "SlippyMapLayer" => answer = ""
          /\ layers' = IF r.exc = "" THEN [layers EXCEPT ![name] = Some(l)] ELSE layers
          /\ heap' = r.heap
          /\ call' = [op |-> "new_layer", layer |-> name, ref |-> ref,
                      exc |-> r.exc, requests |-> r.requests]
          /\ UNCHANGED <<dl, frame, eo, cacheVars, layerVars, map>>

\* layers[name].get_tiles() or layers[name].get_tiles(fields={})
LayerGetTilesCall ==
    \E name \in LayerSlots, own_fields \in BOOLEAN, n \in 0..4 :
      /\ ~IsNone(layers[name])
      /\ Val(layers[name]).runs < MaxRuns
      /\ n \in {0, 1, Len(get_tile_ids(Val(layers[name]).zoom_levels))}
      /\ LET l == Val(layers[name])
             r == layer_get_tiles(heap, l, own_fields, n, "DownloadError")
         IN  /\ layers' = [layers EXCEPT ![name] = Some([l EXCEPT !.tiles = r.tiles,
                                                                 !.runs = @ + 1])]
             /\ heap' = r.heap
             /\ call' = [op |-> "get_tiles", layer |-> name, ref |-> l.tile_downloader,
                         exc |-> r.exc, requests |-> r.requests]
      /\ UNCHANGED <<dl, frame, eo, cacheVars, layerVars, map>>

NextShare ==
    \/ NewLayerCall
    \/ LayerGetTilesCall

SpecShare == InitShare /\ [][NextShare]_vars

----------------------------------------------------------------------------
(* A program that keeps tiles in memory and writes them to an mbtiles file *)

\* MBTiles.create_mbtiles_file(file_list, metadata, scheme=...): every tile of
\* file_list that is not in the requested scheme is flipped in place, then a row
\* (z, x, y, img_data) is written for it; file_list after the call and the rows
create_mbtiles_file(file_list, scheme) ==
    LET after == [p \in DOMAIN file_list |->
                    IF file_list[p].tid.scheme # scheme
                    THEN flip_scheme(file_list[p]) ELSE file_list[p]]
    IN  [file_list |-> after,
         rows |-> {<<after[p].tid.z, after[p].tid.x, after[p].tid.y, after[p].img_data>> :
                     p \in DOMAIN after}]

MemTids ==
    {[z |-> t[1], x |-> 0, y |-> t[2], scheme |-> sch] :
        t \in {<<0, 0>>, <<1, 0>>, <<1, 1>>}, sch \in {"xyz", "tms"}}

InitMem ==
    /\ dl = NewDownloader(PlainUrl, EmptyDict, EmptyDict, EmptyDict, 5, 1)
    /\ frame = IdleFrame
    /\ eo = NoCall
    /\ storage = NewStorage("memory")
    /\ dol = IdleDol
    /\ ctor = NoCtor
    /\ layer = None
    /\ gt = IdleGt
    /\ map = BaseMap
    /\ call = NoEval
    /\ layers = NoLayers
    /\ heap = ImportedHeap

\* S.add_tile(Tile(tid, data))
MemAddTileCall ==
    /\ \E tid \in MemTids :
         LET tile == Tile(tid, ImageBytes, "jpeg")
         IN  /\ \E o \in add_tile(storage, tile) : storage' = o.S
             /\ call' = [op |-> "add_tile", before |-> storage.mem, tile |-> tile]
    /\ UNCHANGED <<dl, frame, eo, dol, layerVars, map, shareVars>>

\* S.get_tile(tid)
MemGetTileCall ==
    /\ \E tid \in MemTids :
         \E res \in get_tile(storage, tid) :
            call' = [op |-> "get_tile", before |-> storage.mem, tid |-> tid, res |-> res]
    /\ UNCHANGED <<dl, frame, eo, cacheVars, layerVars, map, shareVars>>

\* S.get_tile(tid).flip_scheme(): in memory get_tile returns the stored object
MemFlipSchemeCall ==
    /\ \E tid \in MemTids :
         LET k == get_urlform(tid)
         IN  /\ k \in DOMAIN storage.mem
             /\ storage' = [storage EXCEPT !.mem[k] = flip_scheme(@)]
             /\ call' = [op |-> "flip_scheme", before |-> storage.mem, tid |-> tid]
    /\ UNCHANGED <<dl, frame, eo, dol, layerVars, map, shareVars>>

\* MBTiles().create_mbtiles_file({path: S.get_tile(tid), ...}, metadata, scheme=...)
\* with some of the stored tiles
CreateMbtilesFileCall ==
    /\ \E keys \in SUBSET (DOMAIN storage.mem), scheme \in {"xyz", "tms"} :
         LET r == create_mbtiles_file([k \in keys |-> storage.mem[k]], scheme)
         IN  /\ keys # {}
             /\ storage' = [storage EXCEPT !.mem = DictUpdate(@, r.file_list)]
             /\ call' = [op |-> "create_mbtiles_file", before |-> storage.mem,
                         scheme |-> scheme, rows |-> r.rows]
    /\ UNCHANGED <<dl, frame, eo, dol, layerVars, map, shareVars>>

NextMem ==
    \/ MemAddTileCall
    \/ MemGetTileCall
    \/ MemFlipSchemeCall
    \/ CreateMbtilesFileCall

SpecMem == InitMem /\ [][NextMem]_vars

----------------------------------------------------------------------------
(* Properties of Downloader.download (SpecDownload, FairSpecDownload)      *)

GotResponse == frame.last.kind = "resp"
GotHeader == GotResponse /\ ~IsNone(frame.last.ctype)
ConnFailed == frame.last.kind = "conn"

\* the Content-Type of the last response contains the requested format
CtypeHasFormat == IsSubstr(Chars(frame.pf), Lower(Chars(Val(frame.last.ctype))))

RaisedDownloadError == frame.pc = "raised" /\ frame.exc = "DownloadError"

\* the parts of the retry budget that do not depend on what a 200 response does
RetryBudgetCommon ==
    \* at most `retries` HTTP attempts
    /\ frame.reqs <= frame.retries
    \* every connection failure was followed by a sleep
    /\ Len(frame.sleeps) = frame.tries
    /\ frame.reqs = frame.tries + (IF GotResponse THEN 1 ELSE 0)
    \* ... and by another attempt while budget remains
    /\ (ConnFailed /\ frame.tries < frame.retries) => frame.pc = "loop"
    \* the call raises DownloadError after `retries` consecutive connection failures
    /\ (ConnFailed /\ frame.pc = "raised") =>
          /\ frame.exc = "DownloadError"
          /\ frame.reqs = frame.retries
          /\ Len(frame.sleeps) = frame.retries
    \* retries = 0: no attempt at all
    /\ (frame.pc # "idle" /\ frame.retries = 0) => frame.reqs = 0 /\ frame.pc # "returned"

\* C5 as stated: the retry budget, with every 200 response returning its content at once
C5_Original ==
    /\ RetryBudgetCommon
    /\ (GotHeader /\ frame.last.status = 200) =>
          frame.pc = "returned" /\ frame.content = frame.last.content

C5_Inv ==
    /\ RetryBudgetCommon
    /\ (GotHeader /\ frame.last.status = 200 /\ ~FormatMismatch(frame.pf, Val(frame.last.ctype))) =>
          frame.pc = "returned" /\ frame.content = frame.last.content

\* C5 (amended): one download call makes at most `retries` HTTP attempts; a connection
\* failure is followed by a sleep and, while budget remains, another attempt; a 200
\* response that carries a Content-Type header and passes the format check returns its
\* content at once; after `retries` consecutive connection failures the call raises
\* DownloadError (with retries = 0 without any attempt); a started call always ends.
C5_RetryBudget == []C5_Inv /\ (frame.pc = "loop" ~> DownloadOver)

C5_Witness ==
    /\ RaisedDownloadError
    /\ ConnFailed
    /\ frame.retries = 2
    /\ frame.reqs = 2

\* C6: within one download call every sleep after a connection failure is strictly
\* longer than the sleep before it, for every initial backoff_time of a second or more
C6_BackoffGrows ==
    dl.backoff_time >= 1 =>
    \A i \in 2..Len(frame.sleeps) : frame.sleeps[i] > frame.sleeps[i - 1]

\* a response with a header that passes the format check and a status that is
\* neither 200 nor acceptable
BadStatus ==
    /\ GotHeader
    /\ ~FormatMismatch(frame.pf, Val(frame.last.ctype))
    /\ frame.last.status # 200
    /\ frame.last.status \notin frame.acceptable

C8_MismatchRaises ==
    (GotHeader /\ ~CtypeHasFormat) => RaisedDownloadError

----------------------------------------------------------------------------
(* Properties of TileDownloader.download_or_local (SpecCache)              *)

\* C1: a call that finds the storage holding a tile for tid returns a stored tile
\* without download_tile and without any HTTP request; a tile that was downloaded
\* and returned is in the storage, so that the next call for the same tid is a hit
C1_CacheFirst ==
    /\ (dol.pc # "idle" /\ dol.held) =>
          /\ ~dol.fetched
          /\ frame.reqs = 0
          /\ dol.pc = "returned"
          /\ dol.res \in get_tile(dol.before, dol.tid)
    /\ (dol.pc = "returned" /\ dol.fetched /\ ~IsNone(dol.res)) =>
          \A r \in get_tile(storage, dol.tid) : TileFound(r)

\* download_tile raised, or yielded no tile
FetchFailed ==
    /\ dol.fetched
    /\ DownloadOver
    /\ frame.pc = "raised" \/ IsNone(frame.content)

\* C4: when download_tile raises or yields no tile, the storage after
\* download_or_local is what it was before the call
C4_FailedFetchCachesNothing ==
    dol.fetched =>
        /\ dol.pc = "fetching" => storage = dol.before
        /\ (DolOver /\ FetchFailed) => storage = dol.before

C4_Witness ==
    /\ DolOver
    /\ FetchFailed
    /\ RaisedDownloadError
    /\ frame.reqs > 0
    /\ Holds(dol.before, dol.tid)
    /\ storage = dol.before

----------------------------------------------------------------------------
(* Properties of Downloader._extra_override (SpecOverride)                 *)

\* C9: the returned set is the override when a non-empty override is given, and
\* otherwise the instance's set with every key of the extra added or replaced
C9_ParameterMerging ==
    eo.name # "" =>
        IF eo.override # EmptyDict
        THEN eo.res = eo.override
        ELSE /\ DOMAIN eo.res = (DOMAIN eo.before) \cup (DOMAIN eo.extra)
             /\ \A k \in DOMAIN eo.extra : eo.res[k] = eo.extra[k]
             /\ \A k \in (DOMAIN eo.before) \ (DOMAIN eo.extra) : eo.res[k] = eo.before[k]

C9_Witness ==
    /\ eo.name # ""
    /\ eo.override # EmptyDict
    /\ eo.extra # EmptyDict
    /\ eo.before # EmptyDict
    /\ eo.res = eo.override

----------------------------------------------------------------------------
(* Properties of MapLayer.get_tiles (SpecLayer)                            *)

\* position of a zoom level in the layer's zoom list
ZoomPos(z) == CHOOSE i \in 1..Len(Val(layer).zoom_levels) : Val(layer).zoom_levels[i] = z

\* a comes before b in the enumeration: by zoom level as listed, then by column,
\* then by row
Before(a, b) ==
    \/ ZoomPos(a.z) < ZoomPos(b.z)
    \/ a.z = b.z /\ a.x < b.x
    \/ a.z = b.z /\ a.x = b.x /\ a.y < b.y

\* C2: get_tiles resolves the enumerated tiles one at a time in enumeration order,
\* calls download_tile at most once per enumerated tile, and returns one entry per
\* enumerated tile when every fetch yields a tile (21 for zoom levels 0, 1, 2)
C2_OneAtATimeInOrder ==
    gt.pc \in {"loop", "returned"} =>
       LET E == get_tile_ids(Val(layer).zoom_levels)
       IN  /\ gt.calls = SubSeq(E, 1, gt.idx)
           /\ \A i, j \in 1..Len(gt.calls) : i < j => Before(gt.calls[i], gt.calls[j])
           /\ dol.pc # "idle" => dol.tid = gt.calls[Len(gt.calls)]
           /\ \A i, j \in 1..Len(gt.fetches) : i < j => Before(gt.fetches[i], gt.fetches[j])
           /\ \A i \in 1..Len(gt.fetches) : gt.fetches[i] \in SeqElems(gt.calls)
           /\ frame.pc = "loop" => dol.pc = "fetching" /\ dol.tid = gt.fetches[Len(gt.fetches)]
           /\ (gt.pc = "returned" /\ gt.skipped = 0) =>
                 /\ gt.idx = Len(E)
                 /\ Cardinality(DOMAIN Val(layer).tiles) = Len(E)
                 /\ \A i \in 1..Len(E) :
                       \E k \in DOMAIN Val(layer).tiles : Val(layer).tiles[k].tid = E[i]
                 /\ Val(layer).zoom_levels = <<0, 1, 2>> =>
                       Cardinality(DOMAIN Val(layer).tiles) = 21

C2_Witness ==
    /\ gt.pc = "returned"
    /\ gt.skipped = 0
    /\ Val(layer).zoom_levels = <<0, 1, 2>>
    /\ Len(gt.fetches) = 21
    /\ Cardinality(DOMAIN Val(layer).tiles) = 21

\* C3: after a 404 answer nothing is raised: download_or_local returns None and
\* get_tiles goes on with the next tile
C3_NotFoundIsSkipped ==
    (GotHeader /\ frame.last.status = 404) =>
        /\ frame.pc # "raised"
        /\ dol.pc # "raised"
        /\ dol.pc = "returned" => IsNone(dol.res)
        /\ gt.pc # "raised"

----------------------------------------------------------------------------
(* Properties of the MapLayer constructor (SpecConstruct)                  *)

BadZoomList(zs) ==
    \/ Len(zs) = 0
    \/ \E i \in 1..Len(zs) : zs[i] < 0 \/ zs[i] > 22
    \/ \E i, j \in 1..Len(zs) : i # j /\ zs[i] = zs[j]

\* C10: the constructor raises a value error and yields no layer exactly when the
\* zoom list is empty, has a value below 0 or above 22, or has a duplicate
C10_ZoomValidation ==
    ctor.called =>
        IF BadZoomList(ctor.zoom_levels)
        THEN ctor.exc = "ValueError" /\ IsNone(layer)
        ELSE /\ ctor.exc = ""
             /\ ~IsNone(layer)
             /\ Val(layer).zoom_levels = ctor.zoom_levels

C10_Witness ==
    /\ ctor.called
    /\ ctor.zoom_levels = <<22, 0, 1>>
    /\ ~IsNone(layer)

----------------------------------------------------------------------------
(* Properties of the layer configuration (SpecLayer)                       *)

\* C11: no layer object exists with both temp_path and cache_path set: the
\* constructor rejects the pair, so that the rejection never comes as late as
\* get_tiles, after the tiles were enumerated
C11_BothPathsRejected ==
    /\ ~IsNone(layer) => ~(Val(layer).temp_path /\ Val(layer).cache_path)
    /\ gt.exc # "AssertionError"

----------------------------------------------------------------------------
(* Properties of BaseMap.add_layer (SpecMap)                               *)

ZIdxSet(m) == {z_idxs(m)[i] : i \in 1..Len(z_idxs(m))}

\* the z-index recorded by the last add_layer call
RecordedZ == map.layers_meta[Val(call.ret)[1]].z_idx

\* C12: the recorded z-indices are pairwise distinct; an add_layer with a z-index
\* in use raises ValueError and records nothing; an add_layer without a z-index
\* records the maximum z-index plus 1, 0 when none is recorded yet; an add_layer
\* with a free z-index records that z-index
C12_DistinctZIdx ==
    /\ Cardinality(ZIdxSet(map)) = Len(z_idxs(map))
    /\ Cardinality(DOMAIN map.layers_meta) = Len(z_idxs(map))
    /\ call.op = "add_layer" =>
          IF ~IsNone(call.z_idx) /\ Val(call.z_idx) \in ZIdxSet(call.before)
          THEN /\ call.exc = "ValueError"
               /\ map.layers_meta = call.before.layers_meta
          ELSE /\ call.exc = ""
               /\ ZIdxSet(map) = ZIdxSet(call.before) \cup {RecordedZ}
               /\ RecordedZ \notin ZIdxSet(call.before)
               /\ RecordedZ =
                     IF ~IsNone(call.z_idx) THEN Val(call.z_idx)
                     ELSE IF ZIdxSet(call.before) = {} THEN 0
                     ELSE 1 + CHOOSE m \in ZIdxSet(call.before) :
                                 \A z \in ZIdxSet(call.before) : z <= m

C12_Witness ==
    /\ call.op = "add_layer"
    /\ IsNone(call.z_idx)
    /\ call.exc = ""
    /\ ZIdxSet(call.before) = {-1, 3}
    /\ Len(call.before.layers) = 3
    /\ RecordedZ = 4

----------------------------------------------------------------------------
(* Properties of TileID (SpecTileID)                                       *)

OtherScheme(sch) == IF sch = "xyz" THEN "tms" ELSE "xyz"

\* the flip of (z, x, y, scheme) as the claim states it
Flipped(tid) ==
    [z |-> tid.z, x |-> tid.x, y |-> Pow(2, tid.z) - tid.y - 1,
     scheme |-> OtherScheme(tid.scheme)]

\* C13: flipping (z, x, y, scheme) yields (z, x, 2^z - y - 1, other scheme) and
\* flipping the result yields the original; Tile.flip_scheme changes the tile's
\* tid in the same way and nothing else of the tile
C13_FlipInvolution ==
    /\ call.op = "_swap_scheme" =>
          /\ call.once = Flipped(call.tid)
          /\ call.once.scheme # call.tid.scheme
          /\ call.twice = call.tid
    /\ call.op = "flip_scheme" =>
          /\ call.once.tid = Flipped(call.tile.tid)
          /\ call.once.img_data = call.tile.img_data
          /\ call.once.fmt = call.tile.fmt
          /\ call.twice = call.tile

C13_Witness ==
    /\ call.op = "flip_scheme"
    /\ call.tile.tid = [z |-> 2, x |-> 1, y |-> 0, scheme |-> "tms"]
    /\ call.once.tid = [z |-> 2, x |-> 1, y |-> 3, scheme |-> "xyz"]
    /\ call.twice = call.tile

\* the four tiles at z+1 that cover the quadrants of tid
Quadrants(tid) ==
    {[z |-> tid.z + 1, x |-> 2 * tid.x + dx, y |-> 2 * tid.y + dy, scheme |-> "xyz"] :
        dx \in {0, 1}, dy \in {0, 1}}

ParentOf(tid) ==
    [z |-> tid.z - 1, x |-> tid.x \div 2, y |-> tid.y \div 2, scheme |-> "xyz"]

\* a tile id of the zoom level's grid
OnGrid(tid) == tid.x \in 0..(Pow(2, tid.z) - 1) /\ tid.y \in 0..(Pow(2, tid.z) - 1)

\* C14: for a tile of the grid with z >= 1 parent is (z-1, x div 2, y div 2); children are the 4 tiles at
\* z+1 that cover the quadrants, each with this tile as parent; siblings are the
\* children of the parent
C14_Quadtree ==
    /\ (call.op = "parent" /\ call.tid.z >= 1 /\ OnGrid(call.tid)) =>
          /\ call.exc = ""
          /\ call.ret = Some(ParentOf(call.tid))
    /\ (call.op = "children" /\ OnGrid(call.tid)) =>
          /\ call.exc = ""
          /\ Len(Val(call.ret)) = 4
          /\ SeqElems(Val(call.ret)) = Quadrants(call.tid)
          /\ \A c \in SeqElems(Val(call.ret)) :
                c.x \div 2 = call.tid.x /\ c.y \div 2 = call.tid.y /\ c.z - 1 = call.tid.z
    /\ (call.op = "siblings" /\ call.tid.z >= 1 /\ OnGrid(call.tid)) =>
          /\ call.exc = ""
          /\ SeqElems(Val(call.ret)) = Quadrants(ParentOf(call.tid))

----------------------------------------------------------------------------
(* Properties of the geo classes (SpecGeo)                                 *)

\* v lies in [-ext, ext]
Within(v, ext) == Leq(Neg(ext), v) /\ Leq(v, ext)

\* |a - b| is at most half of 10^-8, for a and b less than two units apart
Near(a, b) ==
    \/ a.i = b.i /\ a.f - b.f \in -5..5
    \/ a.i = b.i + 1 /\ a.f + Frac - b.f \in -5..5
    \/ b.i = a.i + 1 /\ b.f + Frac - a.f \in -5..5

\* the component made from input v under extent ext: in the extent, a multiple of
\* 10^-8, and the 8-decimal rounding of v, or of the nearest bound when v is out
\* of range
ClampedFrom(c, v, ext) ==
    /\ Within(c, ext)
    /\ c.f % 10 = 0
    /\ Less(ext, v) => Near(c, ext)
    /\ Less(v, Neg(ext)) => Near(c, Neg(ext))
    /\ Within(v, ext) => Near(c, v)

\* C19: LatLon(lat, lon) and xyPoint(x, y) of numbers never fail; each component
\* lies within its extent; an out-of-range input becomes the nearest bound and an
\* in-range input is kept, each up to the rounding to 8 decimals
C19_ClampDontFail ==
    /\ (call.op = "LatLon" /\ IsNum(call.a) /\ IsNum(call.b)) =>
          /\ call.exc = ""
          /\ ClampedFrom(Val(call.ret).lat, call.a, Num(85, 51129000))
          /\ ClampedFrom(Val(call.ret).lon, call.b, Num(180, 0))
    /\ (call.op = "xyPoint" /\ IsNum(call.a) /\ IsNum(call.b)) =>
          /\ call.exc = ""
          /\ ClampedFrom(Val(call.ret).x, call.a, Num(20037508, 342789244))
          /\ ClampedFrom(Val(call.ret).y, call.b, Num(20037508, 342789244))

C19_Witness ==
    /\ call.op = "xyPoint"
    /\ call.a = Num(40075016, 685578488)
    /\ call.b = Num(-20037509, 657210755)
    /\ call.exc = ""
    /\ Val(call.ret).x = Num(20037508, 342789240)
    /\ Val(call.ret).y = Num(-20037509, 657210760)

\* C15: for a BBoxBase and a Point (x, y), `point in bbox` is true exactly when
\* left < x < right and bottom < y < top, so that a point on an edge or a corner is
\* not contained; an object that is not a Point is never contained
C15_ContainsExclusive ==
    (call.op = "contains" /\ call.bbox.cls = "BBoxBase") =>
        /\ call.pnt.cls = "Point" =>
              (call.ret <=> /\ Less(call.bbox.left, call.pnt.x)
                            /\ Less(call.pnt.x, call.bbox.right)
                            /\ Less(call.bbox.bottom, call.pnt.y)
                            /\ Less(call.pnt.y, call.bbox.top))
        /\ (call.pnt.cls = "Point" /\ call.pnt.x \in {call.bbox.left, call.bbox.right}) =>
              ~call.ret
        /\ (call.pnt.cls = "Point" /\ call.pnt.y \in {call.bbox.top, call.bbox.bottom}) =>
              ~call.ret
        /\ call.pnt.cls # "Point" => ~call.ret

C15_Witness ==
    /\ call.op = "contains"
    /\ call.bbox.cls = "BBoxBase"
    /\ call.bbox.left = Num(-10, 0) /\ call.bbox.right = Num(10, 0)
    /\ call.bbox.bottom = Num(-10, 0) /\ call.bbox.top = Num(10, 0)
    /\ call.pnt = [cls |-> "Point", x |-> Num(10, 0), y |-> Zero]
    /\ ~call.ret

\* how often the call supplies the attribute: by a positional slot and by keywords
\* that resolve to it
Supplied(attr) ==
    Cardinality({i \in 1..Len(call.args) : i <= 5 /\ BBoxPositional[i] = attr})
    + Cardinality({i \in 1..Len(call.kwargs) :
                     /\ lookup(StrLower(call.kwargs[i][1])).exc = ""
                     /\ Val(lookup(StrLower(call.kwargs[i][1])).ret) = attr})

UnknownKeyword ==
    \E i \in 1..Len(call.kwargs) : lookup(StrLower(call.kwargs[i][1])).exc # ""

\* C16: BBox(*args, **kwargs) succeeds only when every keyword is a known alias,
\* at most five positional values are given and each of left, top, right, bottom
\* is supplied exactly once
C16_ExactlyOncePerAxis ==
    (call.op = "BBox" /\ call.exc = "") =>
        /\ ~UnknownKeyword
        /\ Len(call.args) <= 5
        /\ \A attr \in {"left", "top", "right", "bottom"} : Supplied(attr) = 1

\* a value that the converters keep as it is: within the extent, 8 decimals
Kept(v, ext) == IsNum(v) /\ Within(v, ext) /\ v.f % 10 = 0

\* the bbox built from north n, west w, south s, east e stores them as top, left,
\* bottom, right (each in-range value unchanged) and iterates in that order
StoresNWSE(n, w, s, e) ==
    /\ call.exc = ""
    /\ Kept(n, Num(85, 51129000)) => Val(call.ret).top = n
    /\ Kept(w, Num(180, 0)) => Val(call.ret).left = w
    /\ Kept(s, Num(85, 51129000)) => Val(call.ret).bottom = s
    /\ Kept(e, Num(180, 0)) => Val(call.ret).right = e
    /\ call.iter = <<Val(call.ret).top, Val(call.ret).left,
                     Val(call.ret).bottom, Val(call.ret).right>>
    /\ (/\ Kept(n, Num(85, 51129000)) /\ Kept(w, Num(180, 0))
        /\ Kept(s, Num(85, 51129000)) /\ Kept(e, Num(180, 0))) => call.iter = <<n, w, s, e>>

\* C17: LatLonBBox(n, w, s, e) of numbers stores top = n, left = w, bottom = s,
\* right = e and iterates as (top, left, bottom, right), which is (n, w, s, e) for
\* in-range values; a single mercantile (west, south, east, north) bounds object is
\* stored in the same way
C17_LatLonOrder ==
    /\ (/\ call.op = "LatLonBBox" /\ Len(call.args) = 4 /\ call.kwargs = <<>>
        /\ \A i \in 1..4 : IsNum(call.args[i])) =>
          StoresNWSE(call.args[1], call.args[2], call.args[3], call.args[4])
    /\ (/\ call.op = "LatLonBBox" /\ Len(call.args) = 1 /\ call.kwargs = <<>>
        /\ \A v \in {call.args[1].north, call.args[1].west,
                      call.args[1].south, call.args[1].east} : IsNum(v)) =>
          StoresNWSE(call.args[1].north, call.args[1].west,
                     call.args[1].south, call.args[1].east)

C17_Witness ==
    /\ call.op = "LatLonBBox"
    /\ call.args = <<LngLatBbox(Num(-120, 0), Num(-30, 0), Num(150, 0), Num(60, 0))>>
    /\ call.kwargs = <<>>
    /\ call.exc = ""
    /\ call.iter = <<Num(60, 0), Num(-120, 0), Num(-30, 0), Num(150, 0)>>

\* a latitude position holds a value that can only be a longitude
AxisSwapped ==
    \/ Less(Num(85, 51129000), Abs(call.s))
    \/ Less(Num(85, 51129000), Abs(call.n))

OutsideExtents ==
    LET a == PointIter(call.pnt)[1]
        b == PointIter(call.pnt)[2]
    IN  IF call.op = "latlon_to_xy"
        THEN ~Within(a, Num(85, 51129000)) \/ ~Within(b, Num(180, 0))
        ELSE ~Within(a, Num(20037508, 342789244)) \/ ~Within(b, Num(20037508, 342789244))

\* C20: latlon_to_xy and xy_to_latlon raise AssertionError and return no point for
\* every input with a component outside the extent of its axis; for a LatLon
\* instance, respectively an xyPoint instance, they raise nothing and return a
\* point of the other class
C20_AssertExtents ==
    call.op \in {"latlon_to_xy", "xy_to_latlon"} =>
        /\ OutsideExtents => call.exc = "AssertionError" /\ IsNone(call.ret)
        /\ ~OutsideExtents => call.exc = ""
        /\ (call.op = "latlon_to_xy" /\ call.pnt.cls = "LatLon") =>
              call.exc = "" /\ Val(call.ret).cls = "xyPoint"
        /\ (call.op = "xy_to_latlon" /\ call.pnt.cls = "xyPoint") =>
              call.exc = "" /\ Val(call.ret).cls = "LatLon"

C20_Witness ==
    /\ call.op = "latlon_to_xy"
    /\ call.pnt = [cls |-> "Point", x |-> Num(85, 51129001), y |-> Zero]
    /\ call.exc = "AssertionError"
    /\ IsNone(call.ret)

\* a equals b as pytest.approx compares them: |a - b| is at most 10^-6 times |b|
Approx(a, b) ==
    LET d == (a.i - b.i) * Frac + a.f - b.f
        tol == Abs(b).i * 1000 + Abs(b).f \div 1000000
    IN  /\ a.i - b.i \in -1..1
        /\ d \in (0 - tol)..tol

\* C21: for every LatLon p, xy_to_latlon(latlon_to_xy(p)) raises nothing and is a
\* LatLon whose lat and lon equal those of p within the tolerance; a LatLonBBox
\* projected to EPSG:3857 is an xyBBox, and that projected to EPSG:4326 is a
\* LatLonBBox whose four edges equal the first one's within the tolerance
C21_RoundTrip ==
    /\ call.op = "round_trip" =>
          /\ call.exc = ""
          /\ Val(call.there).cls = "xyPoint"
          /\ Val(call.ret).cls = "LatLon"
          /\ Approx(Val(call.ret).lat, call.pnt.lat)
          /\ Approx(Val(call.ret).lon, call.pnt.lon)
    /\ call.op = "bbox_round_trip" =>
          /\ call.exc = ""
          /\ Val(call.there).cls = "xyBBox"
          /\ Val(call.ret).cls = "LatLonBBox"
          /\ \A i \in 1..4 : Approx(BBoxIter(Val(call.ret))[i], BBoxIter(call.bbox)[i])

\* the box of the whole world comes back with latitudes 85.05112878: the y of
\* latitude 85.051129 lies beyond the y extent and is clamped to it
C21_Witness ==
    /\ call.op = "bbox_round_trip"
    /\ BBoxIter(call.bbox) = <<Num(85, 51129000), Num(-180, 0), Neg(Num(85, 51129000)), Num(180, 0)>>
    /\ call.exc = ""
    /\ BBoxIter(Val(call.ret)) = <<Num(85, 51128780), Num(-180, 0), Neg(Num(85, 51128780)), Num(180, 0)>>

----------------------------------------------------------------------------
(* Properties of the disk cache (SpecLayer)                                *)

\* C22: with a disk-backed storage, a tile that get_tiles fetched and added is
\* persisted at z/x/y.<ext> under the storage's directory, ext being jpg for jpeg
\* and the format otherwise, which is tile_path; the key under which get_tiles
\* returns such a tile is the path of the file that holds the tile's bytes
C22_DiskLayout ==
    (storage.mode = "disk" /\ gt.pc \in {"loop", "returned"}) =>
        /\ (dol.pc = "returned" /\ dol.fetched /\ ~IsNone(dol.res)) =>
              /\ tile_path(Val(dol.res)) \in DOMAIN storage.files
              /\ storage.files[tile_path(Val(dol.res))] = Val(dol.res).img_data
        /\ \A k \in DOMAIN Val(layer).tiles :
              Val(layer).tiles[k].tid \in SeqElems(gt.fetches) =>
                 /\ k \in DOMAIN storage.files
                 /\ storage.files[k] = Val(layer).tiles[k].img_data

----------------------------------------------------------------------------
(* Properties of layers and their downloaders (SpecShare)                  *)

\* what a layer's downloader is set to: url, fields, headers, params, tile size
DownloaderView(h, l) ==
    LET d == h[l.tile_downloader]
    IN  [url |-> d.url, fields |-> FieldsOf(h, d), headers |-> d.headers,
         params |-> d.params, tile_size |-> d.tile_size, tile_width |-> d.tile_width,
         tile_height |-> d.tile_height]

\* the reference is one of the downloaders that the layer classes hold as default
IsDefault(ref) == ref \in {DefaultDownloader("SlippyMapLayer"), DefaultDownloader("WmsMapLayer")}

\* C23: a construction or a get_tiles of a layer built without an explicit
\* downloader leaves the url, fields, headers, params and tile size of the
\* downloader of every other layer built without an explicit downloader as they were
OthersKept ==
    (call'.op \in {"new_layer", "get_tiles"} /\ IsDefault(call'.ref)) =>
        \A other \in LayerSlots \ {call'.layer} :
            (~IsNone(layers[other]) /\ IsDefault(Val(layers[other]).tile_downloader)) =>
                DownloaderView(heap', Val(layers[other]))
                    = DownloaderView(heap, Val(layers[other]))
C23_OwnDownloader == [][OthersKept]_vars

\* C26: every request that get_tiles of a WmsMapLayer makes for a tile goes to the
\* GetMap endpoint that the capabilities named when the layer was built
C26_ResolvedEndpoint ==
    (call.op = "get_tiles" /\ Val(layers[call.layer]).cls = "WmsMapLayer") =>
        \A i \in 1..Len(call.requests) :
            call.requests[i].url = GetMapEndpoint(Val(layers[call.layer]).base_url)


----------------------------------------------------------------------------
(* Frame of Downloader._extra_override (SpecOverride)                      *)

\* C27: when a non-empty override is given the extra is ignored: the returned
\* set is the override and the dictionary stored on the downloader is the same
\* after the call as before it
C27_ExtraIgnored ==
    (eo.name # "" /\ eo.override # EmptyDict) =>
        /\ eo.res = eo.override
        /\ dl[eo.name] = eo.before


----------------------------------------------------------------------------
(* Frame of a rejected BaseMap.add_layer (SpecMap)                         *)

\* C28: an add_layer that raises ValueError leaves the layer list and the layer
\* metadata as they were before the call, so that the number of layers equals
\* the number of metadata entries and every layer index has a metadata entry
C28_RejectedAddLayer ==
    /\ (call.op = "add_layer" /\ call.exc = "ValueError") => map = call.before
    /\ Len(map.layers) = Cardinality(DOMAIN map.layers_meta)
    /\ \A lidx \in 0..(Len(map.layers) - 1) : lidx \in DOMAIN map.layers_meta


----------------------------------------------------------------------------
(* Properties of the memory-backed TileStorage (SpecMem)                   *)

\* C29: every entry of the memory storage is kept under the url form of its
\* tile's current TileID, and an add_tile never replaces the entry of a tile
\* with another TileID (z, x, y, scheme): two such tiles never share a key
C29_MemoryKeys ==
    /\ \A k \in DOMAIN storage.mem : k = get_urlform(storage.mem[k].tid)
    /\ call.op = "add_tile" =>
          \A k \in DOMAIN call.before :
             call.before[k].tid # call.tile.tid =>
                /\ k \in DOMAIN storage.mem
                /\ storage.mem[k] = call.before[k]


----------------------------------------------------------------------------
(* Properties of a second run over the disk cache (SpecLayer)              *)

\* the first run downloaded every tile it asked for, and the second run asked
\* for the same tiles and found each of them in the cache
WarmAfterCold ==
    /\ call.op = "first_run"
    /\ gt.pc = "returned"
    /\ call.calls # <<>>
    /\ call.fetches = call.calls
    /\ \A tid \in SeqElems(call.calls) : \E k \in DOMAIN call.tiles : call.tiles[k].tid = tid
    /\ gt.calls = call.calls
    /\ gt.fetches = <<>>

\* C30: the run that finds every tile in the disk cache returns the same keys as
\* the run that downloaded them, with the same TileID, bytes and format per key
C30_ColdWarmAgree ==
    WarmAfterCold =>
        /\ DOMAIN Val(layer).tiles = DOMAIN call.tiles
        /\ \A k \in DOMAIN call.tiles :
              /\ Val(layer).tiles[k].tid = call.tiles[k].tid
              /\ Val(layer).tiles[k].img_data = call.tiles[k].img_data
              /\ Val(layer).tiles[k].fmt = call.tiles[k].fmt


----------------------------------------------------------------------------
(* Properties of LatLonBBox containment and of Projector.project (SpecGeo) *)

\* C24: for a LatLonBBox with north > south and west < east and a LatLon p,
\* `p in bbox` is true exactly when west < p.lon < east and south < p.lat < north
C24_LatLonContains ==
    (/\ call.op = "latlon_contains"
     /\ Less(call.bbox.bottom, call.bbox.top)
     /\ Less(call.bbox.left, call.bbox.right)) =>
        (call.ret <=> /\ Less(call.bbox.left, call.pnt.lon)
                      /\ Less(call.pnt.lon, call.bbox.right)
                      /\ Less(call.bbox.bottom, call.pnt.lat)
                      /\ Less(call.pnt.lat, call.bbox.top))

\* the CRS that an accepted out_crs names; None names none
TargetCrs(out_crs) ==
    IF out_crs.t # "str" THEN ""
    ELSE IF IsSubstr(Chars("3857"), Lower(Chars(out_crs.s))) THEN "EPSG:3857"
    ELSE "EPSG:4326"

KindOf(obj) ==
    IF obj.cls \in BBoxClasses THEN "bbox"
    ELSE IF obj.cls \in PointClasses THEN "point"
    ELSE obj.cls

\* C25: with an accepted target CRS, project returns the object itself when the
\* object's CRS is the target, and otherwise an object of the same kind (bbox or
\* point) whose CRS is the target; an object without a CRS is converted as well
C25_Project ==
    (call.op = "project" /\ call.built) =>
        IF "crs" \in DOMAIN call.obj /\ call.obj.crs = TargetCrs(call.out_crs)
        THEN call.exc = "" /\ Val(call.ret) = call.obj
        ELSE /\ call.exc = ""
             /\ KindOf(Val(call.ret)) = KindOf(call.obj)
             /\ call.out_crs.t = "str" => Val(call.ret).crs = TargetCrs(call.out_crs)

====
